---------------------------- MODULE Spec2Model ----------------------------
(***************************************************************************)
(* Model of the read-aloud content script (ContentManager): the sentence   *)
(* sequenced playback controller with its pause / resume / seek / stop     *)
(* handlers and the per-sentence pipeline readNextSentence -> readSentence. *)
(*                                                                         *)
(* The content script runs on one JavaScript event loop.  Every handler is *)
(* cut at its await points: one action is the code that runs from one      *)
(* suspension to the next.  An async call chain that has been started and  *)
(* has not returned yet is a "pipe": a record holding the chain's position *)
(* (pc) and its local variables.  The browser, the audio device and the    *)
(* TTS service are the environment: an awaited call may resolve or reject. *)
(***************************************************************************)
EXTENDS Integers, Sequences, FiniteSets, TLC

\* ------------------------------------------------------------------ bounds
MaxSent == 2       \* sentences of the longest document
MaxPipes == 1      \* Spec: async call chains of the content script alive at once
MaxRequests == 2   \* Spec: requests the content script receives in one behaviour
WidePipes == 2     \* SpecWide: call chains alive at once
WideRequests == 3  \* SpecWide: requests received in one behaviour
MaxLen == 5        \* SpecSeg: characters of the longest text segmented
MaxPre == 3        \* SpecHead: characters before the run of letters
MaxSuf == 1        \* SpecHead: characters after the run of letters
TitleLen == 2      \* SpecView: characters of the longest title, byline, site name
BodyLen == 4       \* SpecView: characters of the longest article text
RunSent == 3       \* SpecRun: sentences of the longest undisturbed session
MaxOrphans == 2    \* SpecBg: reader tabs left open without an id naming them
MaxInFlight == 2   \* SpecCtl: requests of the reader not yet handled

\* --------------------------------------------------------------- constants
Null == "null"
NoSpeed == 0                     \* an absent speed; !speed holds of it
\* The voice the popup selects and sends when the user has persisted nothing;
\* also the fallback of ContentManager.getSettings for an empty response.
DefaultVoice == "en-US-AvaNeural"
\* The voice and speed getSettings answers when the user has persisted
\* nothing (the defaults of storage.sync.get in the background).
StoredVoice == "Microsoft Server Speech Text to Speech Voice (en-US, AvaNeural)"
StoredSpeed == 10                 \* speeds are in tenths: 1.0

\* A document of n sentences: the text of its i-th sentence (0-based) is
\* named 10 + i, so that a text is never mistaken for an index.
Doc(n) == [i \in 1..n |-> 10 + (i - 1)]

VARIABLES
  ttsClient,             \* TRUE iff this.ttsClient is not null
  audioContext,          \* TRUE iff this.audioContext is not null
  sourceNode,            \* 0 (null) or the pipe whose playback node it is
  isPlaying,
  isPaused,
  currentSentenceIndex,
  sentences,             \* sequence of sentence texts
  currentStream,         \* TRUE iff this.currentStream is not null
  currentVoice,
  currentSpeed,
  pipes,                 \* the async call chains in progress
  emitted,               \* messages sent with runtime.sendMessage by the last step
  lastResponse,          \* the response of the request answered by the last step
  last,                  \* the step taken last: its name, pipe and argument
  clean,                 \* history: the session started alone and was not disturbed
  hlLog,                 \* history: highlights of the session while it is clean
  sessLen,               \* history: number of sentences the session started on
  replay,                \* history: the replay a resume owes after a mid-sentence pause
  superseded,            \* history: pipes that a seek has superseded
  ended,                 \* history: how the pipeline ended, no start since
  held,                  \* history: the sentence after which a pause holds the session, or -1
  requests,              \* history: number of requests received
  cap,                   \* the bounds of the behaviour: call chains and requests
  bg,                    \* the background script (BackgroundManager) and the reader tab
  seg,                   \* one call of splitIntoSentences: its input and its result
  view,                  \* one article on its way into the reader view
  ctl                    \* the reader's buttons and the messages they cause

vars == <<ttsClient, audioContext, sourceNode, isPlaying, isPaused,
          currentSentenceIndex, sentences, currentStream, currentVoice,
          currentSpeed, pipes, emitted, lastResponse, last, clean, hlLog,
          sessLen, replay, superseded, ended, held, requests, cap, bg, seg,
          view, ctl>>

Pipes == DOMAIN pipes

\* ------------------------------------------------------------- pipe records
\* hl is a history field: the index of the highlight the chain emitted last.
FreePipe == [pc |-> "free", idx |-> 0, text |-> 0, hl |-> -1, chunks |-> FALSE,
             node |-> "none", voice |-> Null, speed |-> NoSpeed,
             doc |-> <<>>, failed |-> FALSE]

\* Positions inside readNextSentence / readSentence.
PipelinePcs == {"hl", "ctx1", "ctx2", "meta", "stream", "decode", "playing",
                "delay"}
\* Positions inside readSentence: the sentence is being synthesized or played.
ReadSentencePcs == {"ctx1", "ctx2", "meta", "stream", "decode", "playing"}
\* Positions at which audio state of the sentence exists.
AudioPcs == {"stream", "decode", "playing"}

NoResponse == [action |-> Null, status |-> Null, error |-> Null]
NoRecord == [step |-> "init", pipe |-> 0, arg |-> 0, outcome |-> "none"]

\* The controller state as one record, so that the synchronous part of a
\* handler is a composition of functions on it.
CM == [ttsClient |-> ttsClient, audioContext |-> audioContext,
       sourceNode |-> sourceNode, isPlaying |-> isPlaying,
       isPaused |-> isPaused,
       currentSentenceIndex |-> currentSentenceIndex,
       sentences |-> sentences, currentStream |-> currentStream,
       currentVoice |-> currentVoice, currentSpeed |-> currentSpeed,
       pipes |-> pipes, emitted |-> <<>>, lastResponse |-> NoResponse,
       outcome |-> "none"]

Emit(s, msg) == [s EXCEPT !.emitted = Append(@, msg)]

Msg(action, index, text, closeReader) ==
  [action |-> action, index |-> index, text |-> text, closeReader |-> closeReader]

\* sourceNode.stop(); sourceNode.disconnect(); this.sourceNode = null.
\* A stopped node fires its ended event later.
StopSourceNode(s) ==
  IF s.sourceNode = 0 THEN s
  ELSE [s EXCEPT !.pipes[s.sourceNode].node = "stopped", !.sourceNode = 0]

\* The same, followed in the same task by audioContext.close(): the closed
\* context renders no further quantum, so the ended event of the node it
\* cuts off may never be delivered.
StopAndCloseNode(s) ==
  IF s.sourceNode = 0 \/ ~s.audioContext THEN StopSourceNode(s)
  ELSE [s EXCEPT !.pipes[s.sourceNode].node = "cut", !.sourceNode = 0]

\* The call chain of pipe p returns to the message listener, which answers.
Return(s, p, status, error) ==
  [s EXCEPT !.lastResponse = [action |-> "chain", status |-> status,
                              error |-> error],
            !.pipes[p] = FreePipe]

\* ------------------------------------------------- synchronous handler code
\* stopReading that notifies the background whatever keepState is.
StopReadingAlwaysNotifies(s, closeReader, keepState) ==
  Emit([s EXCEPT !.isPaused = FALSE, !.isPlaying = FALSE,
                 !.currentVoice = IF keepState THEN @ ELSE Null,
                 !.currentSpeed = IF keepState THEN @ ELSE NoSpeed,
                 !.currentSentenceIndex = IF keepState THEN @ ELSE 0,
                 !.sentences = IF keepState THEN @ ELSE <<>>,
                 !.sourceNode = 0, !.audioContext = FALSE,
                 !.ttsClient = FALSE, !.currentStream = FALSE],
       Msg("readingStopped", 0, 0, closeReader))

\* stopReading(closeReader, keepState).  removeListener is called without a
\* listener argument, which removes nothing (the emitter rejects the call and
\* the error is swallowed): the listeners of an open stream stay attached, so
\* a pipe waiting on its stream is left as it is.
StopReading(s, closeReader, keepState) ==
  LET s1 == [s EXCEPT !.isPaused = FALSE, !.isPlaying = FALSE]
      s2 == IF keepState THEN s1
            ELSE [s1 EXCEPT !.currentVoice = Null, !.currentSpeed = NoSpeed,
                            !.currentSentenceIndex = 0, !.sentences = <<>>]
      s3 == StopAndCloseNode(s2)
      s4 == [s3 EXCEPT !.audioContext = FALSE, !.ttsClient = FALSE,
                       !.currentStream = FALSE]
  IN IF keepState THEN s4
     ELSE Emit(s4, Msg("readingStopped", 0, 0, closeReader))

\* pauseReading()
PauseReading(s) == StopSourceNode([s EXCEPT !.isPaused = TRUE])

\* stopCurrentReading() up to its first suspension: with an audio context it
\* suspends in audioContext.close() (TRUE), without one it runs on to the
\* 100 ms timer (FALSE).
StopCurrentReadingHead(s) ==
  [StopAndCloseNode(s) EXCEPT !.currentStream = FALSE]

\* stopCurrentReading() from the return of audioContext.close() to the timer.
StopCurrentReadingTail(s) ==
  [s EXCEPT !.audioContext = FALSE, !.ttsClient = FALSE,
            !.isPlaying = FALSE, !.isPaused = FALSE]

\* The catch block of readNextSentence: a full stop that closes the reader;
\* the error is logged and not rethrown, so the caller's await returns.
PipelineError(s, p) ==
  [Return(StopReading(s, TRUE, FALSE), p, "success", Null)
     EXCEPT !.outcome = "error"]

\* readNextSentence without the highlight message of lines 510-514.
ReadNextSentenceSilent(s, p) ==
  LET i == s.currentSentenceIndex
      n == Len(s.sentences)
  IN IF s.isPaused \/ ~s.isPlaying \/ i >= n
     THEN IF i >= n
          THEN [Return(StopReading(s, TRUE, FALSE), p, "success", Null)
                  EXCEPT !.outcome = "finish"]
          ELSE [Return(s, p, "success", Null) EXCEPT !.outcome = "halt"]
     ELSE IF i < 0
     THEN [Return(s, p, "error", "TypeError") EXCEPT !.outcome = "throw"]
     ELSE [s EXCEPT !.pipes[p].pc = "hl", !.pipes[p].idx = i,
                    !.pipes[p].text = s.sentences[i + 1],
                    !.pipes[p].chunks = FALSE, !.pipes[p].node = "none",
                    !.outcome = "highlight"]

\* readNextSentence(voice, speed) from its entry to the highlight message.
ReadNextSentence(s, p) ==
  LET i == s.currentSentenceIndex
      n == Len(s.sentences)
  IN IF s.isPaused \/ ~s.isPlaying \/ i >= n
     THEN IF i >= n
          THEN [Return(StopReading(s, TRUE, FALSE), p, "success", Null)
                  EXCEPT !.outcome = "finish"]
          ELSE [Return(s, p, "success", Null) EXCEPT !.outcome = "halt"]
     ELSE IF i < 0
     THEN \* sentences[i] is undefined and sentence.text throws before the try
          [Return(s, p, "error", "TypeError") EXCEPT !.outcome = "throw"]
     ELSE Emit([s EXCEPT !.pipes[p].pc = "hl", !.pipes[p].idx = i,
                         !.pipes[p].text = s.sentences[i + 1],
                         !.pipes[p].chunks = FALSE, !.pipes[p].node = "none",
                         !.outcome = "highlight"],
               Msg("updateReaderHighlight", i, s.sentences[i + 1], FALSE))

\* The body of startReadingText once voice and speed are known.
StartReadingText(s, p, voice, speed) ==
  ReadNextSentence(
    [s EXCEPT !.currentVoice = voice, !.currentSpeed = speed,
              !.sentences = s.pipes[p].doc, !.currentSentenceIndex = 0,
              !.isPaused = FALSE, !.isPlaying = TRUE,
              !.pipes[p].voice = voice, !.pipes[p].speed = speed,
              !.pipes[p].doc = <<>>], p)

\* The lowest free pipe.
FreeSlot == CHOOSE p \in Pipes :
              /\ pipes[p].pc = "free"
              /\ \A q \in Pipes : q < p => pipes[q].pc # "free"
HasFreeSlot == \E p \in Pipes : pipes[p].pc = "free"

\* --------------------------------------------------------- history variables
Highlights(s) == SelectSeq(s.emitted, LAMBDA m : m.action = "updateReaderHighlight")
HighlightIndices(s) == [k \in 1..Len(Highlights(s)) |-> Highlights(s)[k].index]

\* Steps of the undisturbed pipeline.
QuietSteps == {"highlightReplied", "ctxResumed", "metaDone", "streamData",
               "streamEnd", "decodeDone", "playbackEnded", "delayExpired"}
\* Steps that handle a request which starts a call chain.
StartSteps == {"startReading", "readSelection", "readFromIndex",
               "resumeReading", "resumeReadingSettings"}
\* Steps in which resumeReading restarts the pipeline.
ResumeSteps == {"resumeReading", "resumeReadingResumed"}
\* Steps in which a request handler enters readNextSentence.
EntrySteps == {"startReadingText", "readFromIndexResumed",
               "readFromIndexSettings", "resumeReading",
               "resumeReadingResumed"}
\* Steps that handle a request.
RequestSteps == {"startReading", "readSelection", "readSelectionEmpty",
                 "readFromIndex", "resumeReading", "resumeReadingSettings",
                 "pauseReading", "stopReading"}
\* Positions of a sentence whose playback has not completed.
MidSentencePcs == PipelinePcs \ {"delay"}

NoReplay == [k |-> -1, p |-> 0]

Apply(s) ==
  /\ ttsClient' = s.ttsClient
  /\ audioContext' = s.audioContext
  /\ sourceNode' = s.sourceNode
  /\ isPlaying' = s.isPlaying
  /\ isPaused' = s.isPaused
  /\ currentSentenceIndex' = s.currentSentenceIndex
  /\ sentences' = s.sentences
  /\ currentStream' = s.currentStream
  /\ currentVoice' = s.currentVoice
  /\ currentSpeed' = s.currentSpeed
  /\ pipes' = s.pipes
  /\ emitted' = s.emitted
  /\ lastResponse' = s.lastResponse

\* The session begins in the step that runs the body of startReadingText.
CleanNext(s, name, p) ==
  IF name = "startReadingText"
  THEN s.outcome = "highlight" /\ \A q \in Pipes \ {p} : pipes[q].pc = "free"
  ELSE IF name \in QuietSteps THEN clean /\ s.outcome # "error"
  ELSE FALSE

ReplayNext(s, name, p) ==
  IF name = "pauseReading"
  THEN IF /\ isPlaying /\ ~isPaused
          /\ \E q \in Pipes : /\ pipes[q].pc \in MidSentencePcs
                              /\ pipes[q].idx = currentSentenceIndex
       THEN [k |-> currentSentenceIndex, p |-> 0]
       ELSE IF replay.p = 0 THEN replay ELSE NoReplay
  ELSE IF name \in ResumeSteps
  THEN IF replay.k >= 0 /\ replay.p = 0 /\ isPaused
       THEN [k |-> replay.k, p |-> p] ELSE NoReplay
  ELSE IF name \in {"startReading", "readSelection", "readFromIndex",
                    "stopReading", "startReadingText"}
          \/ s.outcome = "error"
  THEN NoReplay
  ELSE IF replay.p # 0 /\ s.pipes[replay.p].pc \notin MidSentencePcs
  THEN NoReplay
  ELSE replay

SupersededNext(s, name, arg) ==
  IF name = "readFromIndex" /\ s.outcome # "rejected" /\ arg >= 0
  THEN {q \in Pipes : pipes[q].pc \in ReadSentencePcs}
  ELSE IF name \in {"stopReading", "startReadingText"} THEN {}
  ELSE {q \in superseded : s.pipes[q].pc # "free"}

\* "finish": the guard found the index at the end after the last sentence;
\* "error": the catch block of readNextSentence stopped the session.
EndedNext(s, name) ==
  IF s.outcome = "error" THEN "error"
  ELSE IF s.outcome = "finish" /\ name = "delayExpired" THEN "finish"
  ELSE IF name \in StartSteps \cup EntrySteps THEN "no"
  ELSE ended

\* K while a pause holds the session in the pacing delay after sentence K:
\* set by a pauseReading that finds a call chain in the delay after the
\* current sentence, kept until a request other than pauseReading is handled.
HeldNext(name) ==
  IF name = "pauseReading"
  THEN IF /\ isPlaying /\ ~isPaused
          /\ \E q \in Pipes : /\ pipes[q].pc = "delay"
                              /\ pipes[q].idx = currentSentenceIndex
          /\ \A q \in Pipes : pipes[q].pc \in PipelinePcs => pipes[q].pc = "delay"
       THEN currentSentenceIndex
       ELSE held
  ELSE IF name \in StartSteps \cup EntrySteps \cup RequestSteps THEN -1
  ELSE held

\* The history field hl of the call chain that sent a highlight message.
Record(s, p) ==
  IF p = 0 \/ Len(Highlights(s)) = 0 THEN s
  ELSE [s EXCEPT !.pipes[p].hl = HighlightIndices(s)[Len(Highlights(s))]]

\* One step: the program state after the handler code, and the histories.
Step(s, name, p, arg) ==
  /\ Apply(Record(s, p))
  /\ last' = [step |-> name, pipe |-> p, arg |-> arg, outcome |-> s.outcome]
  /\ clean' = CleanNext(s, name, p)
  /\ hlLog' = IF ~CleanNext(s, name, p) THEN <<>>
              ELSE (IF name = "startReadingText" THEN <<>> ELSE hlLog)
                   \o HighlightIndices(s)
  /\ sessLen' = IF ~CleanNext(s, name, p) THEN 0
                ELSE IF name = "startReadingText" THEN Len(pipes[p].doc)
                ELSE sessLen
  /\ replay' = ReplayNext(s, name, p)
  /\ superseded' = SupersededNext(s, name, arg)
  /\ ended' = EndedNext(s, name)
  /\ held' = HeldNext(name)
  /\ requests' = IF name \in RequestSteps THEN requests + 1 ELSE requests
  /\ cap' = cap
  /\ bg' = bg
  /\ seg' = seg
  /\ view' = view
  /\ ctl' = ctl

\* No article is being followed into the reader view.
NoView ==
  [pc |-> "none", article |-> [title |-> <<>>, byline |-> <<>>,
                                siteName |-> <<>>, textContent |-> <<>>],
   sentences |-> <<>>, content |-> <<>>, spans |-> <<>>,
   sent |-> -1, shown |-> -1]

\* The reader page as reader.html declares it (all three buttons disabled,
\* lines 147-149), a controller without a session and no message under way.
\*   toContent  the requests of the reader on their way to the content script
\*   seek       where the readFromIndex of a sentence click and its answer are
\*   chain      a readNextSentence chain not started by a click is alive
\*   stopped    a readingStopped message is on its way to the background
\*   notify     the same message is on its way to the reader page, which
\*              listens to runtime messages as well
NoControls ==
  [open |-> FALSE, shown |-> FALSE, active |-> FALSE, error |-> FALSE,
   pauseDisabled |-> TRUE, resumeDisabled |-> TRUE, stopDisabled |-> TRUE,
   session |-> FALSE, isPlaying |-> FALSE, isPaused |-> FALSE,
   chain |-> FALSE, toContent |-> <<>>, seek |-> "none", stopped |-> FALSE,
   notify |-> FALSE]

\* No call of splitIntoSentences is being followed.
NoSegmentation ==
  [impl |-> Null, text |-> <<>>, units |-> <<>>, done |-> FALSE,
   heading |-> FALSE]

\* The background script after construction: both tab ids null, no reader
\* tab, no openReaderTab in progress, nothing answered yet.
\*   tab      the reader tab readerTabId names: "none", "loading",
\*            "complete" or "closed"
\*   ready    the reader page's message listener is installed
\*   open     openReaderTab: its position, its retries counter
\*   attempts history: calls of tryUpdateContent by the current openReaderTab
\*   shown    the reader page holds the sentence spans of an article
\*   active   the index of the span of class 'active', -1 when there is none
\*   relayed  history: the index of the 'highlightSentence' message the
\*            reader page handled last, -1 once it has done anything else
\*   resp     the response to the message handled last
BgInit ==
  [sourceTabId |-> FALSE, readerTabId |-> FALSE, tab |-> "none",
   ready |-> FALSE, open |-> [pc |-> "idle", retries |-> 0], attempts |-> 0,
   shown |-> FALSE, active |-> -1, relayed |-> -1, orphans |-> 0,
   resp |-> [action |-> Null, status |-> Null, error |-> FALSE]]

\* ------------------------------------------------------------------- Init
InitWith(maxPipes, maxRequests) ==
  /\ cap = [pipes |-> maxPipes, requests |-> maxRequests]
  /\ bg = BgInit
  /\ ttsClient = FALSE
  /\ audioContext = FALSE
  /\ sourceNode = 0
  /\ isPlaying = FALSE
  /\ isPaused = FALSE
  /\ currentSentenceIndex = 0
  /\ sentences = <<>>
  /\ currentStream = FALSE
  /\ currentVoice = Null
  /\ currentSpeed = NoSpeed
  /\ pipes = [p \in 1..maxPipes |-> FreePipe]
  /\ emitted = <<>>
  /\ lastResponse = NoResponse
  /\ last = NoRecord
  /\ clean = FALSE
  /\ hlLog = <<>>
  /\ sessLen = 0
  /\ replay = NoReplay
  /\ superseded = {}
  /\ ended = "no"
  /\ held = -1
  /\ requests = 0

Init ==
  InitWith(MaxPipes, MaxRequests) /\ seg = NoSegmentation /\ view = NoView /\ ctl = NoControls
InitWide ==
  InitWith(WidePipes, WideRequests) /\ seg = NoSegmentation /\ view = NoView /\ ctl = NoControls

\* What the background answers to getSettings when nothing is persisted.
GetSettingsResult == [voice |-> StoredVoice, speed |-> StoredSpeed]

Respond(s, action, status, error) ==
  [s EXCEPT !.lastResponse = [action |-> action, status |-> status,
                              error |-> error]]

\* ---------------------------------------------------------- startReading
\* startReading from parsePageContent to the openReader message; a page that
\* does not parse throws into the outer catch, which sends 'error'.
StartReadingOpen(s, p, parsed, n) ==
  IF ~parsed
  THEN Emit([s EXCEPT !.pipes[p].pc = "sr_err"], Msg("error", 0, 0, FALSE))
  ELSE Emit([s EXCEPT !.sentences = Doc(n),
                      !.pipes[p].doc = Doc(n),
                      !.pipes[p].pc = "sr_open"],
            Msg("openReader", 0, 0, FALSE))

\* The 'startReading' message without startFromIndex: startReading(voice, speed)
\* up to its first suspension.
StartReading(v, sp, parsed, n) ==
  /\ requests < cap.requests
  /\ HasFreeSlot
  /\ LET p == FreeSlot
         s0 == StopReading(CM, FALSE, FALSE)
         s1 == [s0 EXCEPT !.pipes[p] = [FreePipe EXCEPT
                                          !.voice = v, !.speed = sp]]
     IN Step(IF v = Null \/ sp = NoSpeed
             THEN Emit([s1 EXCEPT !.pipes[p].pc = "sr_settings"],
                       Msg("getSettings", 0, 0, FALSE))
             ELSE StartReadingOpen(s1, p, parsed, n),
             "startReading", p, 0)

\* getSettings has answered startReading.
StartReadingSettings(p, parsed, n) ==
  /\ pipes[p].pc = "sr_settings"
  /\ LET v == IF pipes[p].voice = Null THEN GetSettingsResult.voice
              ELSE pipes[p].voice
         sp == IF pipes[p].speed = NoSpeed THEN GetSettingsResult.speed
               ELSE pipes[p].speed
     IN Step(StartReadingOpen([CM EXCEPT !.pipes[p].voice = v,
                                         !.pipes[p].speed = sp], p, parsed, n),
             "startReadingSettings", p, 0)

\* The background has answered openReader.
StartReadingOpened(p, ok) ==
  /\ pipes[p].pc = "sr_open"
  /\ Step(IF ok THEN [CM EXCEPT !.pipes[p].pc = "sr_wait"]
          ELSE Emit([CM EXCEPT !.pipes[p].pc = "sr_err"],
                    Msg("error", 0, 0, FALSE)),
          "startReadingOpened", p, 0)

\* The 1000 ms wait is over: startReadingText(textContent, voice, speed).
StartReadingWaited(p) ==
  /\ pipes[p].pc = "sr_wait"
  /\ Step(StartReadingText(CM, p, pipes[p].voice, pipes[p].speed),
          "startReadingText", p, 0)

\* The 'error' message of the outer catch is out: startReading throws.
StartReadingFailed(p) ==
  /\ pipes[p].pc = "sr_err"
  /\ Step(Return(CM, p, "error", "Failed to start reading"),
          "startReadingFailed", p, 0)

\* ---------------------------------------------------------- readSelection
\* The 'readSelection' message with a selection of n sentences.
ReadSelection(n) ==
  /\ requests < cap.requests
  /\ HasFreeSlot
  /\ LET p == FreeSlot
     IN Step(Emit([CM EXCEPT !.pipes[p] =
                     [FreePipe EXCEPT
                        !.doc = Doc(n), !.pc = "sel_settings"]],
                  Msg("getSettings", 0, 0, FALSE)),
             "readSelection", p, 0)

\* The 'readSelection' message with nothing selected.
ReadSelectionEmpty ==
  /\ requests < cap.requests
  /\ Step(Respond(CM, "readSelection", "error", "No text selected"),
          "readSelectionEmpty", 0, 0)

\* getSettings has answered startReadingText.
ReadSelectionSettings(p) ==
  /\ pipes[p].pc = "sel_settings"
  /\ Step(StartReadingText(CM, p, GetSettingsResult.voice,
                           GetSettingsResult.speed),
          "startReadingText", p, 0)

\* ----------------------------------------------------------- readFromIndex
VoiceKnown(s) == s.currentVoice # Null /\ s.currentSpeed # NoSpeed

\* await this.stopCurrentReading(): pipe p suspends in audioContext.close()
\* when there is a context, otherwise in the 100 ms timer.
StopCurrentReading(s, p) ==
  LET h == StopCurrentReadingHead(s)
  IN IF h.audioContext THEN [h EXCEPT !.pipes[p].pc = "rfi_close"]
     ELSE [StopCurrentReadingTail(h) EXCEPT !.pipes[p].pc = "rfi_wait"]

\* The catch block of readFromIndex: stopCurrentReading, then rethrow.
ReadFromIndexCatch(s, p) ==
  StopCurrentReading([s EXCEPT !.pipes[p].failed = TRUE], p)

\* readFromIndex from "Update state" to the highlight of readNextSentence.
\* console.log reads this.sentences[index].text, which throws for an index
\* that is not an index of the list.
ReadFromIndexStart(s, p) ==
  LET i == s.pipes[p].idx
      s1 == [s EXCEPT !.currentSentenceIndex = i, !.isPlaying = TRUE,
                      !.isPaused = FALSE, !.pipes[p].doc = <<>>,
                      !.pipes[p].text = 0,
                      !.pipes[p].voice = s.currentVoice,
                      !.pipes[p].speed = s.currentSpeed]
  IN IF i + 1 \in DOMAIN s.sentences THEN ReadNextSentence(s1, p)
     ELSE ReadFromIndexCatch(s1, p)

\* The call chain of readFromIndex(i).  Its history fields keep what the
\* handler found: doc the sentence list, voice and speed the known settings,
\* text whether a session was playing or paused (1) or not (0).
SeekPipe(i) ==
  [FreePipe EXCEPT !.idx = i, !.doc = sentences, !.voice = currentVoice,
                   !.speed = currentSpeed,
                   !.text = IF isPlaying \/ isPaused THEN 1 ELSE 0]

\* The 'readFromIndex' message with a numeric index: readFromIndex(index) up
\* to its first suspension.
ReadFromIndex(i) ==
  /\ requests < cap.requests
  /\ IF Len(sentences) = 0
     THEN Step([Respond(CM, "readFromIndex", "error",
                        "No sentences available to read from")
                  EXCEPT !.outcome = "rejected"], "readFromIndex", 0, i)
     ELSE IF i >= Len(sentences)
     THEN Step([Respond(CM, "readFromIndex", "error", "Index out of bounds")
                  EXCEPT !.outcome = "rejected"], "readFromIndex", 0, i)
     ELSE /\ HasFreeSlot
          /\ LET p == FreeSlot
             IN Step(StopCurrentReading(
                       [CM EXCEPT !.pipes[p] = SeekPipe(i)], p),
                     "readFromIndex", p, i)

\* audioContext.close() has returned inside stopCurrentReading.
ReadFromIndexClosed(p) ==
  /\ pipes[p].pc = "rfi_close"
  /\ Step([StopCurrentReadingTail(CM) EXCEPT !.pipes[p].pc = "rfi_wait"],
          "readFromIndexClosed", p, pipes[p].idx)

\* The 100 ms timer of stopCurrentReading has fired: on the way in, create
\* the audio context and await its resume(); on the way out of the catch
\* block, rethrow to the listener.
ReadFromIndexStopped(p, ctxOk) ==
  /\ pipes[p].pc = "rfi_wait"
  /\ Step(IF pipes[p].failed
          THEN Return(CM, p, "error", "Failed to start reading from index")
          ELSE IF ~audioContext /\ ~ctxOk THEN ReadFromIndexCatch(CM, p)
          ELSE [CM EXCEPT !.audioContext = TRUE, !.pipes[p].pc = "rfi_resume"],
          "readFromIndexStopped", p, pipes[p].idx)

\* audioContext.resume() has resolved.
ReadFromIndexResumed(p) ==
  /\ pipes[p].pc = "rfi_resume"
  /\ LET s1 == [CM EXCEPT !.ttsClient = TRUE]
     IN Step(IF VoiceKnown(s1) THEN ReadFromIndexStart(s1, p)
             ELSE Emit([s1 EXCEPT !.pipes[p].pc = "rfi_settings"],
                       Msg("getSettings", 0, 0, FALSE)),
             "readFromIndexResumed", p, pipes[p].idx)

\* getSettings has answered readFromIndex.
ReadFromIndexSettings(p) ==
  /\ pipes[p].pc = "rfi_settings"
  /\ Step(ReadFromIndexStart(
            [CM EXCEPT !.currentVoice = GetSettingsResult.voice,
                       !.currentSpeed = GetSettingsResult.speed], p),
          "readFromIndexSettings", p, pipes[p].idx)

\* ------------------------------------------------- resume, pause and stop
\* resumeReading from the flags to the highlight of readNextSentence.
ResumeStart(s, p) ==
  ReadNextSentence([s EXCEPT !.isPaused = FALSE, !.isPlaying = TRUE,
                             !.pipes[p].voice = s.currentVoice,
                             !.pipes[p].speed = s.currentSpeed], p)

\* The 'resumeReading' message.
ResumeReading ==
  /\ requests < cap.requests
  /\ HasFreeSlot
  /\ LET p == FreeSlot
         s1 == CM
     IN IF VoiceKnown(s1) THEN Step(ResumeStart(s1, p), "resumeReading", p, 0)
        ELSE Step(Emit([s1 EXCEPT !.pipes[p].pc = "res_settings"],
                       Msg("getSettings", 0, 0, FALSE)),
                  "resumeReadingSettings", p, 0)

\* getSettings has answered resumeReading.
ResumeReadingSettings(p) ==
  /\ pipes[p].pc = "res_settings"
  /\ Step(ResumeStart([CM EXCEPT !.currentVoice = GetSettingsResult.voice,
                                 !.currentSpeed = GetSettingsResult.speed], p),
          "resumeReadingResumed", p, 0)

\* The 'pauseReading' message.
PauseReadingReq ==
  /\ requests < cap.requests
  /\ Step(Respond(PauseReading(CM), "pauseReading", "success", Null),
          "pauseReading", 0, 0)

\* The 'stopReading' message: stopReading(message.closeReader), then the
\* index is reset.
StopReadingReq(closeReader) ==
  /\ requests < cap.requests
  /\ Step(Respond([StopReading(CM, closeReader, FALSE)
                     EXCEPT !.currentSentenceIndex = 0],
                  "stopReading", "success", Null),
          "stopReading", 0, 0)

\* ------------------------------------------------------------ the pipeline
Tag(s, outcome) == [s EXCEPT !.outcome = outcome]

\* cleanup() of readSentence
Cleanup(s) == StopSourceNode(s)

\* The promise of readSentence resolves: readNextSentence goes on to its
\* 250 ms pacing delay.
Resolve(s, p) ==
  [s EXCEPT !.pipes[p].pc = "delay", !.pipes[p].node = "none",
            !.pipes[p].chunks = FALSE]

\* The highlight message has been answered: readSentence up to its first
\* suspension.  The TTS client and the audio context are created when
\* missing; a new context that is suspended, or an old one that is not
\* running, is resumed first.
HighlightReplied(p, ctxOk, running) ==
  /\ pipes[p].pc = "hl"
  /\ LET s1 == [CM EXCEPT !.ttsClient = TRUE]
     IN Step(IF ~audioContext /\ ~ctxOk THEN PipelineError(s1, p)
             ELSE IF running
             THEN [s1 EXCEPT !.audioContext = TRUE, !.pipes[p].pc = "meta"]
             ELSE [s1 EXCEPT !.audioContext = TRUE,
                     !.pipes[p].pc = IF audioContext THEN "ctx2" ELSE "ctx1"],
             "highlightReplied", p, 0)

\* audioContext.resume() has resolved.  After the resume of a new context
\* this.audioContext is read again and must not be null; then setMetadata is
\* called on this.ttsClient.
CtxResumed(p) ==
  /\ pipes[p].pc \in {"ctx1", "ctx2"}
  /\ Step(IF (pipes[p].pc = "ctx1" /\ ~audioContext) \/ ~ttsClient
          THEN PipelineError(CM, p)
          ELSE [CM EXCEPT !.pipes[p].pc = "meta"],
          "ctxResumed", p, 0)

\* setMetadata has resolved: this.ttsClient.toStream(text, options).
MetaDone(p) ==
  /\ pipes[p].pc = "meta"
  /\ Step(IF ~ttsClient THEN PipelineError(CM, p)
          ELSE [CM EXCEPT !.currentStream = TRUE, !.pipes[p].pc = "stream",
                          !.pipes[p].chunks = FALSE, !.outcome = "stream"],
          "metaDone", p, 0)

\* stream 'data'
StreamData(p) ==
  /\ pipes[p].pc = "stream"
  /\ Step([CM EXCEPT !.pipes[p].chunks = TRUE], "streamData", p, 0)

\* stream 'error'
StreamError(p) ==
  /\ pipes[p].pc = "stream"
  /\ Step(PipelineError(Cleanup(CM), p), "streamError", p, 0)

\* stream 'end' without the check of allChunks.length at lines 644-648.
StreamEndAnyLength(p) ==
  /\ pipes[p].pc = "stream"
  /\ Step(IF isPaused THEN Tag(Resolve(Cleanup(CM), p), "resolved")
          ELSE [CM EXCEPT !.pipes[p].pc = "decode"],
          "streamEnd", p, IF pipes[p].chunks THEN 1 ELSE 0)

\* stream 'end' up to decodeAudioData
StreamEnd(p) ==
  /\ pipes[p].pc = "stream"
  /\ Step(IF isPaused THEN Tag(Resolve(Cleanup(CM), p), "resolved")
          ELSE IF ~pipes[p].chunks THEN PipelineError(CM, p)
          ELSE [CM EXCEPT !.pipes[p].pc = "decode"],
          "streamEnd", p, IF pipes[p].chunks THEN 1 ELSE 0)

\* decodeAudioData has resolved: the node is created and started.
DecodeDone(p) ==
  /\ pipes[p].pc = "decode"
  /\ Step(IF isPaused THEN Tag(Resolve(Cleanup(CM), p), "resolved")
          ELSE [CM EXCEPT !.sourceNode = p, !.pipes[p].pc = "playing",
                          !.pipes[p].node = "started", !.outcome = "node"],
          "decodeDone", p, 0)

\* An onended handler that forgets the node and does not call the resolver.
PlaybackEndedSilent(p) ==
  /\ pipes[p].pc = "playing"
  /\ Step([CM EXCEPT !.sourceNode = 0], "playbackEnded", p, 0)

\* sourceNode.onended, after the natural end or after a stop()
PlaybackEnded(p) ==
  /\ pipes[p].pc = "playing"
  /\ Step(Tag(Resolve([CM EXCEPT !.sourceNode = 0], p), "ended"),
          "playbackEnded", p, 0)

\* The pacing delay is over, without the increment of line 527.
DelayExpiredSameIndex(p) ==
  /\ pipes[p].pc = "delay"
  /\ Step(IF ~isPaused /\ isPlaying
          THEN ReadNextSentence(CM, p)
          ELSE Tag(Return(CM, p, "success", Null), "halt"),
          "delayExpired", p, 0)

\* The pacing delay is over, without the isPaused test of line 525.
DelayExpiredIgnoringPause(p) ==
  /\ pipes[p].pc = "delay"
  /\ Step(IF isPlaying
          THEN ReadNextSentence([CM EXCEPT !.currentSentenceIndex = @ + 1], p)
          ELSE Tag(Return(CM, p, "success", Null), "halt"),
          "delayExpired", p, 0)

\* The pacing delay is over and the chain returns to its caller whatever
\* the flags are: the listener answers while the session goes on.
DelayExpiredAnswersEarly(p) ==
  /\ pipes[p].pc = "delay"
  /\ Step(Tag(Return(CM, p, "success", Null), "halt"), "delayExpired", p, 0)

\* The pacing delay is over: advance and recurse, or return.
DelayExpired(p) ==
  /\ pipes[p].pc = "delay"
  /\ Step(IF ~isPaused /\ isPlaying
          THEN ReadNextSentence([CM EXCEPT !.currentSentenceIndex = @ + 1], p)
          ELSE Tag(Return(CM, p, "success", Null), "halt"),
          "delayExpired", p, 0)

\* An awaited call rejects: the highlight message, resume(), setMetadata and
\* decodeAudioData inside the pipeline; getSettings, openReader and resume()
\* in the request handlers.
AwaitRejected(p) ==
  /\ pipes[p].pc \in {"hl", "ctx1", "ctx2", "meta", "decode", "sr_settings",
                      "sr_open", "sel_settings", "rfi_resume", "rfi_settings",
                      "res_settings"}
  /\ LET pc == pipes[p].pc
     IN Step(IF pc \in PipelinePcs THEN PipelineError(CM, p)
             ELSE IF pc \in {"sr_settings", "sr_open"}
             THEN Emit([CM EXCEPT !.pipes[p].pc = "sr_err"],
                       Msg("error", 0, 0, FALSE))
             ELSE IF pc = "sel_settings"
             THEN Return([CM EXCEPT !.isPlaying = FALSE], p, "error",
                         "getSettings failed")
             ELSE IF pc = "res_settings"
             THEN Return(CM, p, "error", "getSettings failed")
             ELSE ReadFromIndexCatch(CM, p),
             "awaitRejected", p, 0)

\* ------------------------------------------------------------------- Next
\* startReading comes from the popup with its voice and speed, or without.
Voices == {<<Null, NoSpeed>>, <<DefaultVoice, StoredSpeed>>}

Next ==
  \/ \E a \in Voices, parsed \in BOOLEAN, n \in 0..MaxSent :
       StartReading(a[1], a[2], parsed, n)
  \/ \E p \in Pipes, parsed \in BOOLEAN, n \in 0..MaxSent :
       StartReadingSettings(p, parsed, n)
  \/ \E p \in Pipes, ok \in BOOLEAN : StartReadingOpened(p, ok)
  \/ \E p \in Pipes : StartReadingWaited(p)
  \/ \E p \in Pipes : StartReadingFailed(p)
  \/ \E n \in 0..MaxSent : ReadSelection(n)
  \/ ReadSelectionEmpty
  \/ \E p \in Pipes : ReadSelectionSettings(p)
  \/ \E i \in -1..MaxSent : ReadFromIndex(i)
  \/ \E p \in Pipes : ReadFromIndexClosed(p)
  \/ \E p \in Pipes, ctxOk \in BOOLEAN : ReadFromIndexStopped(p, ctxOk)
  \/ \E p \in Pipes : ReadFromIndexResumed(p)
  \/ \E p \in Pipes : ReadFromIndexSettings(p)
  \/ ResumeReading
  \/ \E p \in Pipes : ResumeReadingSettings(p)
  \/ PauseReadingReq
  \/ \E closeReader \in BOOLEAN : StopReadingReq(closeReader)
  \/ \E p \in Pipes, ctxOk \in BOOLEAN, running \in BOOLEAN :
       HighlightReplied(p, ctxOk, running)
  \/ \E p \in Pipes : CtxResumed(p)
  \/ \E p \in Pipes : MetaDone(p)
  \/ \E p \in Pipes : StreamData(p)
  \/ \E p \in Pipes : StreamError(p)
  \/ \E p \in Pipes : StreamEnd(p)
  \/ \E p \in Pipes : DecodeDone(p)
  \/ \E p \in Pipes : PlaybackEnded(p)
  \/ \E p \in Pipes : DelayExpired(p)
  \/ \E p \in Pipes : AwaitRejected(p)

Spec == Init /\ [][Next]_vars
SpecWide == InitWide /\ [][Next]_vars

\* The ended event of a node that ended by itself, or was stopped in a
\* context that is still rendering, is delivered.
EndedDelivered ==
  \E p \in Pipes : pipes[p].node # "cut" /\ PlaybackEnded(p)

SpecLive == Init /\ [][Next]_vars /\ WF_vars(EndedDelivered)

\* One session that nothing disturbs: a single start request on a document
\* of at least one sentence, every awaited call resolves, every stream
\* delivers a chunk before it ends, and no pause, stop or seek is sent.
RunStart ==
  /\ requests = 0
  /\ \/ \E a \in Voices, n \in 1..RunSent : StartReading(a[1], a[2], TRUE, n)
     \/ \E n \in 1..RunSent : ReadSelection(n)

\* The steps of the start handlers, each the return of an awaited call.
RunEntry ==
  \/ \E p \in Pipes, n \in 1..RunSent : StartReadingSettings(p, TRUE, n)
  \/ \E p \in Pipes : StartReadingOpened(p, TRUE)
  \/ \E p \in Pipes : StartReadingWaited(p)
  \/ \E p \in Pipes : ReadSelectionSettings(p)

\* The callbacks of the pipeline, but for the end of the stream.
RunPipeline ==
  \/ \E p \in Pipes, running \in BOOLEAN : HighlightReplied(p, TRUE, running)
  \/ \E p \in Pipes : CtxResumed(p)
  \/ \E p \in Pipes : MetaDone(p)
  \/ \E p \in Pipes : StreamData(p)
  \/ \E p \in Pipes : DecodeDone(p)
  \/ \E p \in Pipes : PlaybackEnded(p)
  \/ \E p \in Pipes : DelayExpired(p)

\* The stream ends after at least one chunk.
RunStreamEnd == \E p \in Pipes : pipes[p].chunks /\ StreamEnd(p)

NextRun == RunStart \/ RunEntry \/ RunPipeline \/ RunStreamEnd

\* The browser settles every awaited call, fires every timer and event, and
\* ends every stream.
SpecRun ==
  /\ Init /\ [][NextRun]_vars
  /\ WF_vars(RunEntry) /\ WF_vars(RunPipeline) /\ WF_vars(RunStreamEnd)


\* ------------------------------------------------- the background script
\* The variables of the content script.
contentVars == <<ttsClient, audioContext, sourceNode, isPlaying, isPaused,
                 currentSentenceIndex, sentences, currentStream, currentVoice,
                 currentSpeed, pipes, emitted, lastResponse, last, clean,
                 hlLog, sessLen, replay, superseded, ended, held, requests,
                 cap>>

MaxRetries == 20    \* maxRetries of openReaderTab

\* Requests the listener relays to the tab of sourceTabId.
SourceRelays == {"readSelection", "stopReading", "pauseReading",
                 "resumeReading"}
\* The requests of the relay that come from the reader page and the
\* content script.
RelayActions == SourceRelays \cup {"readFromIndex", "updateReaderHighlight"}

\* One step of the background script.
BgStep(b) == bg' = b /\ UNCHANGED <<contentVars, seg, view, ctl>>

\* The listener returns r; a return without a value is "undefined".
BgRespond(b, action, status, error) ==
  [b EXCEPT !.resp = [action |-> action, status |-> status, error |-> error]]

\* The reader tab exists (tabs.get, tabs.update and tabs.sendMessage reach it).
TabAlive(b) == b.tab \in {"loading", "complete"}

\* 'setSourceTab'
BgSetSourceTab ==
  BgStep(BgRespond([bg EXCEPT !.sourceTabId = TRUE],
                   "setSourceTab", "success", FALSE))

\* 'readSelection', 'stopReading', 'pauseReading', 'resumeReading': relayed
\* to the source tab when there is one; delivered says whether
\* tabs.sendMessage resolved.  Without a source tab the case breaks out of
\* the switch and the listener returns nothing.
BgRelaySource(action, delivered) ==
  BgStep(IF ~bg.sourceTabId THEN BgRespond(bg, action, "undefined", FALSE)
         ELSE IF delivered THEN BgRespond(bg, action, "success", FALSE)
         ELSE BgRespond(bg, action, "error", TRUE))

\* The sentence indices a highlight or a click can name.
SentenceIndices == 0..(MaxSent - 1)

\* ReaderManager.clearActiveSentence
clearActiveSentence(b) == [b EXCEPT !.active = -1]

\* ReaderManager.updateActiveSentence: the span of that index, if the page
\* has one, becomes the only active one.
updateActiveSentence(b, index) ==
  [b EXCEPT !.active = IF b.shown THEN index ELSE -1]

\* The message listener of the reader page.  'updateContent' replaces the
\* content (and with it every span); 'ping', 'readingStarted',
\* 'readingStopped' and 'error' touch neither the spans nor the active
\* class; there is no case for 'highlightSentence', which falls to the
\* default case and is answered 'Unknown action'.
ReaderOnMessage(b, action, index) ==
  IF action = "updateContent"
  THEN [b EXCEPT !.shown = TRUE, !.active = -1, !.relayed = -1]
  ELSE IF action = "highlightSentence"
  THEN [b EXCEPT !.relayed = index]
  ELSE b

\* 'updateReaderHighlight': relayed to the reader tab as 'highlightSentence'.
\* The response of the reader page is not inspected.
BgUpdateReaderHighlight(index, delivered) ==
  BgStep(IF ~bg.readerTabId
         THEN BgRespond(bg, "updateReaderHighlight", "undefined", FALSE)
         ELSE IF delivered /\ TabAlive(bg) /\ bg.ready
         THEN BgRespond(ReaderOnMessage(bg, "highlightSentence", index),
                        "updateReaderHighlight", "success", FALSE)
         ELSE BgRespond(bg, "updateReaderHighlight", "error", TRUE))

\* 'readFromIndex': relayed to the source tab, then 'readingStarted' to the
\* reader tab; on a failure 'error' is sent to the reader tab from the catch
\* block, and a failure of that send reaches the outer catch.
RelayReadFromIndex(b, delivered, started) ==
  IF ~b.sourceTabId
  THEN BgRespond(b, "readFromIndex", "error", TRUE)
  ELSE IF delivered /\ (~b.readerTabId \/ (started /\ TabAlive(b)))
  THEN BgRespond(b, "readFromIndex", "success", FALSE)
  ELSE BgRespond(b, "readFromIndex", "error", TRUE)

BgReadFromIndex(delivered, started) ==
  BgStep(RelayReadFromIndex(bg, delivered, started))

\* A click on the sentence span of that index in the reader page: the span
\* becomes active, 'readFromIndex' goes to the background, and an 'error'
\* answer clears the active class again.
ReaderClick(index, delivered, started) ==
  /\ bg.tab = "complete" /\ bg.ready /\ bg.shown
  /\ LET b == RelayReadFromIndex(
                [updateActiveSentence(bg, index) EXCEPT !.relayed = -1],
                delivered, started)
     IN  BgStep(IF b.resp.status = "error" THEN clearActiveSentence(b)
                ELSE b)

\* 'readingStopped': with closeReader the reader tab is removed and both
\* ids are cleared; tabs.remove of a tab that is gone rejects into the
\* outer catch.
BgReadingStopped(closeReader) ==
  BgStep(IF ~closeReader
         THEN BgRespond(bg, "readingStopped", "success", FALSE)
         ELSE IF bg.readerTabId /\ ~TabAlive(bg)
         THEN BgRespond(bg, "readingStopped", "error", TRUE)
         ELSE BgRespond([bg EXCEPT !.readerTabId = FALSE,
                                   !.sourceTabId = FALSE,
                                   !.tab = IF bg.readerTabId THEN "closed"
                                           ELSE @,
                                   !.ready = IF bg.readerTabId THEN FALSE
                                             ELSE @,
                                   !.shown = IF bg.readerTabId THEN FALSE
                                             ELSE @,
                                   !.active = IF bg.readerTabId THEN -1
                                              ELSE @,
                                   !.relayed = IF bg.readerTabId THEN -1
                                               ELSE @],
                        "readingStopped", "success", FALSE))

\* 'getSettings': the settings object is the response.
BgGetSettings ==
  BgStep(BgRespond(bg, "getSettings", "settings", FALSE))

\* Any other action, 'error' included: the default case.
BgUnknown ==
  BgStep(BgRespond(bg, "error", "error", TRUE))

\* ------------------------------------------------------- openReaderTab
\* openReaderTab settles: the 'openReader' case answers.
BgOpenDone(b, status) ==
  BgRespond([b EXCEPT !.open = [pc |-> "idle", retries |-> 0]],
            "openReader", status, status = "error")

\* 'openReader': the sender's tab becomes the source tab; openReaderTab
\* starts with tabs.get of an existing reader tab or with tabs.create.
\* One openReaderTab is followed at a time; its retries counter is local to
\* the call.
BgOpenReader ==
  /\ bg.open.pc = "idle" /\ bg.orphans < MaxOrphans
  /\ BgStep([bg EXCEPT !.sourceTabId = TRUE, !.attempts = 0,
                       !.resp = [action |-> "openReader", status |-> "pending",
                                 error |-> FALSE],
                       !.open = [pc |-> IF bg.readerTabId THEN "get"
                                        ELSE "create",
                                 retries |-> 0]])

\* The catch block of lines 198-201: the reader tab is forgotten and a new
\* one is created.
BgForgetTab(b) == [b EXCEPT !.readerTabId = FALSE, !.open.pc = "create"]

\* tabs.get, tabs.update, and updateReaderContent (its tabs.get and its
\* 'updateContent' message) for the existing reader tab, one await each.
\* answered says whether the reader page answered 'updateContent' with a
\* status other than 'error'.
BgExistingTab(answered) ==
  /\ bg.open.pc \in {"get", "update", "ex_get", "ex_send"}
  /\ BgStep(IF ~TabAlive(bg) THEN BgForgetTab(bg)
            ELSE IF bg.open.pc = "get" THEN [bg EXCEPT !.open.pc = "update"]
            ELSE IF bg.open.pc = "update" THEN [bg EXCEPT !.open.pc = "ex_get"]
            ELSE IF bg.open.pc = "ex_get" THEN [bg EXCEPT !.open.pc = "ex_send"]
            ELSE IF bg.ready /\ answered
            THEN BgOpenDone(ReaderOnMessage(bg, "updateContent", -1),
                            "success")
            ELSE BgForgetTab(bg))

\* tabs.create has resolved: without a tab id openReaderTab throws;
\* otherwise readerTabId is set and the onUpdated listener is registered.
\* The new tab may have reported status 'complete' already.  A reader tab
\* that was forgotten while it was open stays open: nothing removes it, and
\* from now on no id of the background names it.
BgTabCreated(hasId, complete) ==
  /\ bg.open.pc = "create"
  /\ BgStep(IF ~hasId THEN BgOpenDone(bg, "error")
            ELSE [bg EXCEPT !.readerTabId = TRUE, !.ready = FALSE,
                            !.shown = FALSE, !.active = -1, !.relayed = -1,
                            !.orphans = IF TabAlive(bg) THEN @ + 1 ELSE @,
                            !.tab = IF complete THEN "complete" ELSE "loading",
                            !.open.pc = "listening"])

\* The reader tab reports status 'complete'; a registered listener removes
\* itself and schedules tryUpdateContent after 500 ms.
TabComplete ==
  /\ bg.tab = "loading"
  /\ BgStep([bg EXCEPT !.tab = "complete",
                       !.open.pc = IF @ = "listening" THEN "wait" ELSE @])

\* The reader page has installed its message listener.
ReaderReady ==
  /\ bg.tab = "complete" /\ ~bg.ready
  /\ BgStep([bg EXCEPT !.ready = TRUE])

\* The user closes the reader tab.
TabClosed ==
  /\ TabAlive(bg)
  /\ BgStep([bg EXCEPT !.tab = "closed", !.ready = FALSE, !.shown = FALSE,
                       !.active = -1, !.relayed = -1])

\* The user closes a reader tab the background has forgotten.
OrphanClosed ==
  /\ bg.orphans > 0
  /\ BgStep([bg EXCEPT !.orphans = @ - 1])

\* The catch block of tryUpdateContent without the limit of lines 241-244.
BgRetryUnbounded(b) ==
  [b EXCEPT !.open.retries = @ + 1, !.open.pc = "wait"]

\* The catch block of tryUpdateContent: count the failure, reject at
\* maxRetries, otherwise schedule the next attempt.
BgRetry(b) ==
  IF b.open.retries + 1 >= MaxRetries THEN BgOpenDone(b, "error")
  ELSE [b EXCEPT !.open.retries = @ + 1, !.open.pc = "wait"]

\* A timer fires (500 ms after 'complete', or retryInterval after a failed
\* attempt): tryUpdateContent sends its ping.
BgTryUpdateContent ==
  /\ bg.open.pc = "wait"
  /\ BgStep([bg EXCEPT !.open.pc = "ping", !.attempts = @ + 1])

\* The ping, the tabs.get and the 'updateContent' message of one attempt,
\* one await each.
BgAttempt(answered) ==
  /\ bg.open.pc \in {"ping", "tc_get", "tc_send"}
  /\ BgStep(IF bg.open.pc = "ping"
            THEN IF TabAlive(bg) /\ bg.ready
                 THEN [bg EXCEPT !.open.pc = "tc_get"] ELSE BgRetry(bg)
            ELSE IF bg.open.pc = "tc_get"
            THEN IF TabAlive(bg)
                 THEN [bg EXCEPT !.open.pc = "tc_send"] ELSE BgRetry(bg)
            ELSE IF TabAlive(bg) /\ bg.ready /\ answered
            THEN BgOpenDone(ReaderOnMessage(bg, "updateContent", -1),
                            "success")
            ELSE BgRetry(bg))

\* Steps of the background script that its own scheduling takes: awaited
\* browser calls settle and timers fire.
BgProgress ==
  \/ \E answered \in BOOLEAN : BgExistingTab(answered)
  \/ \E hasId, complete \in BOOLEAN : BgTabCreated(hasId, complete)
  \/ BgTryUpdateContent
  \/ \E answered \in BOOLEAN : BgAttempt(answered)

NextBg ==
  \/ BgSetSourceTab
  \/ \E a \in SourceRelays, delivered \in BOOLEAN : BgRelaySource(a, delivered)
  \/ \E index \in SentenceIndices, delivered \in BOOLEAN :
       BgUpdateReaderHighlight(index, delivered)
  \/ \E index \in SentenceIndices, delivered, started \in BOOLEAN :
       ReaderClick(index, delivered, started)
  \/ \E delivered, started \in BOOLEAN : BgReadFromIndex(delivered, started)
  \/ \E closeReader \in BOOLEAN : BgReadingStopped(closeReader)
  \/ BgGetSettings
  \/ BgUnknown
  \/ BgOpenReader
  \/ BgProgress
  \/ TabComplete
  \/ ReaderReady
  \/ TabClosed
  \/ OrphanClosed

SpecBg == Init /\ [][NextBg]_vars
\* The browser settles every awaited call and fires every timer.
SpecBgFair == SpecBg /\ WF_vars(BgProgress)

\* ------------------------------------------------------ splitIntoSentences

\* A text is a sequence of characters.  One character stands for each class
\* the segmenting code tells apart: a lowercase letter, an uppercase letter,
\* a sentence terminator, a blank and a line break.
Newline == "\n"
Chars == {"a", "A", ".", " ", Newline}
Texts == UNION {[1..n -> Chars] : n \in 0..MaxLen}

\* The texts of at most n characters over chars.
TextsOver(chars, n) == UNION {[1..k -> chars] : k \in 0..n}

IsTerminator(c) == c = "."              \* [.!?]
IsSpace(c) == c \in {" ", Newline}      \* \s
IsUpper(c) == c = "A"                   \* [A-Z]
IsLower(c) == c = "a"                   \* [a-z]

\* text.replace(/\s+/g, ' ')
RECURSIVE CollapseSpaces(_)
CollapseSpaces(t) ==
  IF t = <<>> THEN <<>>
  ELSE IF IsSpace(t[1])
       THEN IF Len(t) > 1 /\ IsSpace(t[2])
            THEN CollapseSpaces(Tail(t))
            ELSE <<" ">> \o CollapseSpaces(Tail(t))
       ELSE <<t[1]>> \o CollapseSpaces(Tail(t))

RECURSIVE TrimStart(_)
TrimStart(t) ==
  IF t # <<>> /\ IsSpace(t[1]) THEN TrimStart(Tail(t)) ELSE t

RECURSIVE TrimEnd(_)
TrimEnd(t) ==
  IF t # <<>> /\ IsSpace(t[Len(t)])
  THEN TrimEnd(SubSeq(t, 1, Len(t) - 1))
  ELSE t

\* String.prototype.trim
Trim(t) == TrimEnd(TrimStart(t))

\* text.replace(/\s+/g, ' ').trim()
Normalize(t) == Trim(CollapseSpaces(t))

\* The last position of the longest run that starts at position i and
\* consists of terminators (term) or of other characters (~term); i - 1 when
\* the run is empty.  This is what the greedy [^.!?]+ and [.!?]+ consume.
RECURSIVE RunEnd(_, _, _)
RunEnd(t, i, term) ==
  IF i <= Len(t) /\ IsTerminator(t[i]) = term
  THEN RunEnd(t, i + 1, term)
  ELSE i - 1

\* The end of the match of /[^.!?]+(?:[.!?]+(?:(?=[A-Z][a-z])|$|\s))/ that
\* starts at position i, or 0 when there is none.  Giving back characters of
\* either run never helps: after a shorter first run comes a character that
\* is no terminator, after a shorter second run comes a terminator.
MatchEnd(t, i) ==
  LET k == RunEnd(t, i, FALSE)
      m == RunEnd(t, k + 1, TRUE)
  IN  IF k < i \/ m <= k THEN 0
      ELSE IF m + 2 <= Len(t) /\ IsUpper(t[m + 1]) /\ IsLower(t[m + 2]) THEN m
      ELSE IF m = Len(t) THEN m
      ELSE IF IsSpace(t[m + 1]) THEN m + 1
      ELSE 0

\* text.match(sentenceRegex) || []: the matches from position i on, each
\* search resuming after the previous match.
RECURSIVE Matches(_, _)
Matches(t, i) ==
  IF i > Len(t) THEN <<>>
  ELSE LET e == MatchEnd(t, i)
       IN  IF e = 0
           THEN Matches(t, i + 1)
           ELSE <<SubSeq(t, i, e)>> \o Matches(t, e + 1)

IsDigit(c) == c = "1"                   \* \d, [0-9]
IsColon(c) == c = ":"
\* [A-Z0-9\s.,!?-]
InCapsClass(c) ==
  IsUpper(c) \/ IsDigit(c) \/ IsSpace(c) \/ IsTerminator(c) \/ c = ","
\* the regex dot: any character but a line break
IsDot(c) == c # Newline

HeadLimit == 50     \* the {1,50} of the second and third pattern

\* /^[A-Z0-9\s.,!?-]+$/
AllCaps(t) ==
  t # <<>> /\ \A k \in 1..Len(t) : InCapsClass(t[k])

\* /^.{1,50}:$/
EndsWithColon(t) ==
  /\ Len(t) - 1 \in 1..HeadLimit
  /\ IsColon(t[Len(t)])
  /\ \A k \in 1..(Len(t) - 1) : IsDot(t[k])

\* /^\d+\.\s+.{1,50}$/: d digits, a period, whitespace up to e, a phrase
Numbered(t) ==
  \E d \in 1..Len(t), e \in 1..Len(t) :
    /\ d + 2 <= e /\ e < Len(t)
    /\ \A k \in 1..d : IsDigit(t[k])
    /\ t[d + 1] = "."
    /\ \A k \in (d + 2)..e : IsSpace(t[k])
    /\ Len(t) - e \in 1..HeadLimit
    /\ \A k \in (e + 1)..Len(t) : IsDot(t[k])

\* isHeading
isHeading(t) == AllCaps(t) \/ EndsWithColon(t) \/ Numbered(t)

\* A filter that lets every unit through.
AnyText(s) == TRUE

NonEmptyText(s) == Len(s.text) > 0

\* .map((text, index) => ({text: text.trim(), index, isHeading}))
\* .filter(sentence => sentence.text.length > 0)
MapAndFilter(parts) ==
  SelectSeq([k \in 1..Len(parts) |->
               [text |-> Trim(parts[k]), index |-> k - 1,
                isHeading |-> isHeading(Trim(parts[k]))]],
            NonEmptyText)

\* TextProcessor.splitIntoSentences
splitIntoSentences(text) == MapAndFilter(Matches(Normalize(text), 1))

\* The first position from i on that holds no whitespace.
RECURSIVE SkipSpaces(_, _)
SkipSpaces(t, i) ==
  IF i <= Len(t) /\ IsSpace(t[i]) THEN SkipSpaces(t, i + 1) ELSE i

\* .replace(/([.!?])\s+/g, '$1\n') of the older ContentManager variant
RECURSIVE MarkSentenceEnds(_, _)
MarkSentenceEnds(t, i) ==
  IF i > Len(t) THEN <<>>
  ELSE IF i > 1 /\ IsSpace(t[i]) /\ IsTerminator(t[i - 1])
       THEN <<Newline>> \o MarkSentenceEnds(t, SkipSpaces(t, i))
       ELSE <<t[i]>> \o MarkSentenceEnds(t, i + 1)

\* text.split(/\n+/); cur is the piece being collected
RECURSIVE SplitLines(_, _)
SplitLines(t, cur) ==
  IF t = <<>> THEN <<cur>>
  ELSE IF t[1] = Newline
       THEN IF Len(t) > 1 /\ t[2] = Newline
            THEN SplitLines(Tail(t), cur)
            ELSE <<cur>> \o SplitLines(Tail(t), <<>>)
       ELSE SplitLines(Tail(t), cur \o <<t[1]>>)

\* ContentManager.splitIntoSentences of src/content/content.ts
contentSplitIntoSentences(text) ==
  MapAndFilter(SplitLines(Trim(MarkSentenceEnds(CollapseSpaces(text), 1)), <<>>))

Impls == {"TextProcessor", "ContentManager"}

\* Any text of at most MaxLen characters may be handed to either variant.
InitSeg ==
  /\ InitWith(MaxPipes, MaxRequests)
  /\ view = NoView /\ ctl = NoControls
  /\ seg \in {[impl |-> f, text |-> t, units |-> <<>>, done |-> FALSE,
                 heading |-> FALSE] :
                f \in Impls, t \in Texts}

SegmentText ==
  /\ seg.impl = "TextProcessor" /\ ~seg.done
  /\ seg' = [seg EXCEPT !.units = splitIntoSentences(seg.text), !.done = TRUE]
  /\ UNCHANGED <<contentVars, bg, view, ctl>>

SegmentContent ==
  /\ seg.impl = "ContentManager" /\ ~seg.done
  /\ seg' = [seg EXCEPT !.units = contentSplitIntoSentences(seg.text),
                        !.done = TRUE]
  /\ UNCHANGED <<contentVars, bg, view, ctl>>

NextSeg == SegmentText \/ SegmentContent

SpecSeg == InitSeg /\ [][NextSeg]_vars

\* ---------------------------------------------------------------- isHeading

\* The characters isHeading tells apart: those of Chars, a digit, the colon,
\* a punctuation mark of the first pattern's class and one outside it.
HeadChars == Chars \cup {"1", ":", ",", ";"}

\* n times the character c
Fill(c, n) == [k \in 1..n |-> c]

\* The lengths of the run of letters in the middle of a text: none, one, and
\* those around the limit of the patterns.
RunLens == {0, 1} \cup ((HeadLimit - 2)..(HeadLimit + 1))

\* The texts isHeading is applied to: at most MaxPre characters, a run of
\* lowercase letters, at most MaxSuf characters.
HeadTexts ==
  {pre \o Fill("a", n) \o suf :
     pre \in TextsOver(HeadChars, MaxPre), n \in RunLens,
     suf \in TextsOver(HeadChars, MaxSuf)}

InitHead ==
  /\ InitWith(MaxPipes, MaxRequests)
  /\ view = NoView /\ ctl = NoControls
  /\ seg \in {[impl |-> "isHeading", text |-> t, units |-> <<>>,
                 done |-> FALSE, heading |-> FALSE] : t \in HeadTexts}

TestHeading ==
  /\ seg.impl = "isHeading" /\ ~seg.done
  /\ seg' = [seg EXCEPT !.heading = isHeading(seg.text), !.done = TRUE]
  /\ UNCHANGED <<contentVars, bg, view, ctl>>

NextHead == TestHeading

SpecHead == InitHead /\ [][NextHead]_vars

\* ---------------------------------------------------------- the reader view

\* One text node of the HTML the controller sends: the tag of its parent
\* element, the data-sentence-index of that element (-1 when it has none)
\* and the text.
TextNode(tag, index, text) == [tag |-> tag, index |-> index, text |-> text]

By == <<"A", "a", " ">>       \* the literal 'By '
From == <<"A", "a", "a", "a", " ">>   \* the literal 'From '

\* ContentManager.formatArticleContent: the text nodes of the HTML string it
\* builds, in document order.
formatArticleContent(article, sents) ==
  (IF article.title # <<>>
   THEN <<TextNode("h1", -1, article.title),
          TextNode("body", -1, <<Newline, Newline>>)>>
   ELSE <<>>)
  \o (IF article.byline # <<>> \/ article.siteName # <<>>
      THEN <<TextNode("div", -1, <<Newline>>)>>
           \o (IF article.byline # <<>>
               THEN <<TextNode("p", -1, By \o article.byline),
                      TextNode("div", -1, <<Newline>>)>>
               ELSE <<>>)
           \o (IF article.siteName # <<>>
               THEN <<TextNode("p", -1, From \o article.siteName),
                      TextNode("div", -1, <<Newline>>)>>
               ELSE <<>>)
           \o <<TextNode("body", -1, <<Newline, Newline>>)>>
      ELSE <<>>)
  \o <<TextNode("div", -1, <<Newline>>)>>
  \o [k \in 1..Len(sents) |->
        TextNode("span", sents[k].index, sents[k].text \o <<" ">>)]
  \o <<TextNode("body", -1, <<Newline>>)>>

\* ReaderManager.updateContent: every text node that is not blank and that
\* splitIntoSentences splits into at least one sentence is replaced by one
\* span per sentence, numbered by a counter that runs over the whole
\* content.  The result lists the new spans in document order: index is
\* their data-sentence-index, outer the data-sentence-index of the element
\* the text node was in.
RECURSIVE updateContent(_, _)
updateContent(nodes, sentenceIndex) ==
  IF nodes = <<>> THEN <<>>
  ELSE LET node == Head(nodes)
           units == IF Trim(node.text) = <<>> THEN <<>>
                    ELSE splitIntoSentences(node.text)
       IN  [k \in 1..Len(units) |->
              [index |-> sentenceIndex + k - 1, text |-> units[k].text,
               outer |-> node.index]]
           \o updateContent(Tail(nodes), sentenceIndex + Len(units))

Articles ==
  [title : TextsOver({"a", "."}, TitleLen),
   byline : TextsOver({"a", "."}, TitleLen),
   siteName : {<<>>, <<"a", ".">>},
   textContent : TextsOver({"a", ".", " "}, BodyLen)]

InitView ==
  /\ InitWith(MaxPipes, MaxRequests)
  /\ seg = NoSegmentation /\ ctl = NoControls
  /\ view \in {[NoView EXCEPT !.pc = "parsed", !.article = a] : a \in Articles}

\* startReading, lines 207-212: the sentence list and the HTML for the
\* reader are made from the parsed article.
ViewFormat ==
  /\ view.pc = "parsed"
  /\ LET sents == splitIntoSentences(view.article.textContent)
     IN  view' = [view EXCEPT !.pc = "formatted", !.sentences = sents,
                              !.content = formatArticleContent(view.article,
                                                               sents)]
  /\ UNCHANGED <<contentVars, bg, seg, ctl>>

\* The reader page handles 'updateContent'.
ViewUpdateContent ==
  /\ view.pc = "formatted"
  /\ view' = [view EXCEPT !.pc = "shown",
                          !.spans = updateContent(view.content, 0)]
  /\ UNCHANGED <<contentVars, bg, seg, ctl>>

\* A click on the text of the k-th sentence span of the reader page:
\* closest('[data-sentence-index]') is the span updateContent made, and its
\* index is sent in 'readFromIndex'.  shown is the index the clicked
\* sentence has in the controller's list, -1 when it is not in the list.
ViewClick(k) ==
  /\ view.pc = "shown"
  /\ k \in 1..Len(view.spans)
  /\ view' = [view EXCEPT !.pc = "clicked", !.sent = view.spans[k].index,
                          !.shown = view.spans[k].outer]
  /\ UNCHANGED <<contentVars, bg, seg, ctl>>

NextView ==
  \/ ViewFormat
  \/ ViewUpdateContent
  \/ \E k \in 1..Len(view.spans) : ViewClick(k)

SpecView == InitView /\ [][NextView]_vars

\* ------------------------------------------------------ the reader's buttons

\* enableControls that leaves the Resume button as it is.
EnableControlsKeepResume(c) ==
  [c EXCEPT !.pauseDisabled = FALSE, !.stopDisabled = FALSE]

\* ReaderManager.enableControls
enableControls(c) ==
  [c EXCEPT !.pauseDisabled = FALSE, !.stopDisabled = FALSE,
            !.resumeDisabled = TRUE]

\* ReaderManager.disableControls
disableControls(c) ==
  [c EXCEPT !.pauseDisabled = TRUE, !.resumeDisabled = TRUE,
            !.stopDisabled = TRUE]

CtlStep(c) == ctl' = c /\ UNCHANGED <<contentVars, bg, seg, view>>

InitCtl ==
  /\ InitWith(MaxPipes, MaxRequests)
  /\ seg = NoSegmentation /\ view = NoView
  /\ ctl = [NoControls EXCEPT !.open = TRUE]

\* The reader receives updateContent: the article is shown and the last
\* statement of updateContent enables the controls.
ReaderUpdateContent ==
  /\ ctl.open /\ ~ctl.shown
  /\ CtlStep(enableControls([ctl EXCEPT !.shown = TRUE]))

\* The content script, answered by openReader, starts the session:
\* startReadingText sets the flags and calls readNextSentence.
ContentStartReadingText ==
  /\ ctl.shown /\ ~ctl.session /\ ~ctl.stopped /\ ctl.open
  /\ ~ctl.isPlaying /\ ~ctl.isPaused /\ ~ctl.chain
  /\ CtlStep([ctl EXCEPT !.session = TRUE, !.isPlaying = TRUE,
                         !.isPaused = FALSE, !.chain = TRUE])

Room == Len(ctl.toContent) < MaxInFlight

\* click on Pause: the message is sent and not awaited
ClickPause ==
  /\ ctl.open /\ ~ctl.pauseDisabled /\ Room
  /\ CtlStep([ctl EXCEPT !.toContent = Append(@, "pauseReading"),
                         !.pauseDisabled = TRUE, !.resumeDisabled = FALSE])

\* click on Resume
ClickResume ==
  /\ ctl.open /\ ~ctl.resumeDisabled /\ Room
  /\ CtlStep([ctl EXCEPT !.toContent = Append(@, "resumeReading"),
                         !.resumeDisabled = TRUE, !.pauseDisabled = FALSE])

\* click on Stop
ClickStop ==
  /\ ctl.open /\ ~ctl.stopDisabled /\ Room
  /\ CtlStep(disableControls(
               [ctl EXCEPT !.toContent = Append(@, "stopReading")]))

\* click on a sentence: updateActiveSentence, then the readFromIndex message
\* is sent and its answer awaited
ClickSentence ==
  /\ ctl.open /\ ctl.shown /\ ctl.seek = "none" /\ Room
  /\ CtlStep([ctl EXCEPT !.toContent = Append(@, "readFromIndex"),
                         !.active = TRUE, !.seek = "sent"])

\* The content script's listener handles the request the background relays.
\*   pauseReading   isPaused = true
\*   resumeReading  the flags are set and a new chain starts
\*   stopReading    stopReading(closeReader) with the closeReader = true the
\*                  relay puts in: flags and sentences cleared, readingStopped
\*   readFromIndex  stopCurrentReading clears both flags and suspends; a
\*                  controller without sentences answers with an error
ContentHandle ==
  /\ ctl.toContent # <<>>
  /\ LET m == Head(ctl.toContent)
         c == [ctl EXCEPT !.toContent = Tail(@)]
     IN CtlStep(
          CASE m = "pauseReading" -> [c EXCEPT !.isPaused = TRUE]
            [] m = "resumeReading" ->
                 [c EXCEPT !.isPaused = FALSE, !.isPlaying = TRUE,
                           !.chain = TRUE]
            [] m = "stopReading" ->
                 [c EXCEPT !.isPaused = FALSE, !.isPlaying = FALSE,
                           !.session = FALSE, !.stopped = TRUE,
                           !.notify = TRUE]
            [] m = "readFromIndex" ->
                 IF c.session
                 THEN [c EXCEPT !.isPaused = FALSE, !.isPlaying = FALSE,
                                !.seek = "stopping"]
                 ELSE [c EXCEPT !.seek = "failed"])

\* readFromIndex after stopCurrentReading: the state update and the call of
\* readNextSentence; the sentences may be gone by now.
ContentSeekStarted ==
  /\ ctl.seek = "stopping"
  /\ CtlStep(IF ctl.session
             THEN [ctl EXCEPT !.isPaused = FALSE, !.isPlaying = TRUE,
                              !.seek = "running"]
             ELSE [ctl EXCEPT !.isPaused = FALSE, !.isPlaying = TRUE,
                              !.seek = "failed"])

\* A readNextSentence chain at one of its checks: it returns when the
\* controller is paused or not playing; otherwise it goes on, or (atEnd) it
\* has read the last sentence and stops the session with stopReading(true).
ChainEnds(c, atEnd) ==
  IF c.isPaused \/ ~c.isPlaying THEN c
  ELSE IF atEnd
       THEN [c EXCEPT !.isPlaying = FALSE, !.isPaused = FALSE,
                      !.session = FALSE, !.stopped = TRUE,
                      !.notify = TRUE]
       ELSE c

ChainReturns(c, atEnd) == c.isPaused \/ ~c.isPlaying \/ atEnd

\* the chain the click started: when it returns, readFromIndex resolves and
\* the listener answers 'success'
SeekChainStep(atEnd) ==
  /\ ctl.seek = "running" /\ ChainReturns(ctl, atEnd)
  /\ CtlStep([ChainEnds(ctl, atEnd) EXCEPT !.seek = "replied"])

\* a chain started by startReadingText or resumeReading
ChainStep(atEnd) ==
  /\ ctl.chain /\ ChainReturns(ctl, atEnd)
  /\ CtlStep([ChainEnds(ctl, atEnd) EXCEPT !.chain = FALSE])

\* The background has the answer of the content script to readFromIndex:
\* after 'success' it sends readingStarted to the reader, after an error
\* the error message.
BgSeekAnswered ==
  /\ ctl.seek \in {"replied", "failed"}
  /\ CtlStep([ctl EXCEPT !.seek = IF ctl.seek = "replied" THEN "started"
                                  ELSE "error"])

\* The reader's listener: readingStarted enables the controls, error shows
\* the error.
ReaderOnRelay ==
  /\ ctl.open /\ ctl.seek \in {"started", "error"}
  /\ CtlStep(IF ctl.seek = "started"
             THEN [enableControls(ctl) EXCEPT !.seek = "done"]
             ELSE [ctl EXCEPT !.error = TRUE, !.seek = "refused"])

\* The reader's listener receives the readingStopped of the content script.
ReaderReadingStopped ==
  /\ ctl.open /\ ctl.notify
  /\ CtlStep([disableControls(ctl) EXCEPT !.notify = FALSE])

\* The click handler has its answer: 'success' enables the controls, an
\* error shows the error and clears the active sentence.
ReaderSeekAnswered ==
  /\ ctl.open /\ ctl.seek \in {"done", "refused"}
  /\ CtlStep(IF ctl.seek = "done"
             THEN [enableControls(ctl) EXCEPT !.seek = "none"]
             ELSE [ctl EXCEPT !.error = TRUE, !.active = FALSE,
                              !.seek = "none"])

\* The background handles readingStopped with closeReader = true: the reader
\* tab is removed, and with it the page and what was on its way to it.
BgReaderClosed ==
  /\ ctl.stopped
  /\ CtlStep([NoControls EXCEPT !.session = ctl.session,
                                !.isPlaying = ctl.isPlaying,
                                !.isPaused = ctl.isPaused,
                                !.chain = ctl.chain,
                                !.seek = IF ctl.seek \in {"stopping", "running"}
                                         THEN ctl.seek ELSE "none"])

NextCtl ==
  \/ ReaderUpdateContent
  \/ ContentStartReadingText
  \/ ClickPause
  \/ ClickResume
  \/ ClickStop
  \/ ClickSentence
  \/ ContentHandle
  \/ ContentSeekStarted
  \/ \E atEnd \in BOOLEAN : SeekChainStep(atEnd)
  \/ \E atEnd \in BOOLEAN : ChainStep(atEnd)
  \/ BgSeekAnswered
  \/ ReaderOnRelay
  \/ ReaderReadingStopped
  \/ ReaderSeekAnswered
  \/ BgReaderClosed

SpecCtl == InitCtl /\ [][NextCtl]_vars

\* ------------------------------------------------------------- stopReading

\* The states of the controller stopReading may be called in: every
\* combination of its fields, with a started node when sourceNode is set.
InitStop ==
  /\ cap = [pipes |-> MaxPipes, requests |-> MaxRequests]
  /\ bg = BgInit /\ seg = NoSegmentation /\ view = NoView /\ ctl = NoControls
  /\ ttsClient \in BOOLEAN
  /\ audioContext \in BOOLEAN
  /\ currentStream \in BOOLEAN
  /\ isPlaying \in BOOLEAN
  /\ isPaused \in BOOLEAN
  /\ sentences \in {Doc(n) : n \in 0..MaxSent}
  /\ currentSentenceIndex \in 0..MaxSent
  /\ currentVoice \in {Null, DefaultVoice, StoredVoice}
  /\ currentSpeed \in {NoSpeed, StoredSpeed}
  /\ sourceNode \in 0..MaxPipes
  /\ pipes = [p \in 1..MaxPipes |->
                IF p = sourceNode
                THEN [FreePipe EXCEPT !.pc = "playing", !.node = "started"]
                ELSE FreePipe]
  /\ emitted = <<>>
  /\ lastResponse = NoResponse
  /\ last = NoRecord
  /\ clean = FALSE
  /\ hlLog = <<>>
  /\ sessLen = 0
  /\ replay = NoReplay
  /\ superseded = {}
  /\ ended = "no"
  /\ held = -1
  /\ requests = 0

\* One call stopReading(closeReader, keepState); the step records keepState.
CallStopReading(closeReader, keepState) ==
  /\ last.step = "init"
  /\ Step(StopReading(CM, closeReader, keepState), "stopReadingCall", 0,
          IF keepState THEN 1 ELSE 0)

NextStop == \E closeReader, keepState \in BOOLEAN :
              CallStopReading(closeReader, keepState)

SpecStop == InitStop /\ [][NextStop]_vars

\* ----------------------------------------------------------------- claims
ReadingStopped(msgs) ==
  {k \in DOMAIN msgs : msgs[k].action = "readingStopped"}
ErrorMessages(msgs) == {k \in DOMAIN msgs : msgs[k].action = "error"}
\* Call chains inside readNextSentence / readSentence.
ActivePipelines == {p \in Pipes : pipes[p].pc \in PipelinePcs}

\* C1: in a session started on n >= 1 sentences with no pause, stop, seek or
\* error, the highlights emitted so far are 0, 1, ... in increasing order, one
\* per index and never more than n; the sentence the pipeline works on is the
\* one highlighted last (its highlight precedes the settling of its playback
\* promise); and when the pipeline finishes, all of 0..n-1 have been emitted.
C1_HighlightsInOrder ==
  clean =>
    /\ sessLen >= 1
    /\ Len(hlLog) \in 1..sessLen
    /\ \A k \in 1..Len(hlLog) : hlLog[k] = k - 1
    /\ \A p \in ActivePipelines :
         /\ pipes[p].idx = hlLog[Len(hlLog)]
         /\ pipes[p].hl = pipes[p].idx
    /\ last.outcome = "finish" => Len(hlLog) = sessLen

C1_Witness ==
  /\ clean
  /\ last.outcome = "finish"
  /\ sessLen = MaxSent
  /\ hlLog = [k \in 1..MaxSent |-> k - 1]

C3_ResumeReplaysSentence ==
  replay.p # 0 =>
    /\ last.step \in ResumeSteps =>
         /\ last.outcome = "highlight"
         /\ pipes[last.pipe].hl = replay.k
    /\ last.outcome \in {"highlight", "stream"} =>
         pipes[last.pipe].idx = replay.k

\* C4: a readFromIndex(i) with a valid i handled while a sentence is being
\* synthesized or played leaves no stream and no node behind, and the call
\* chains it superseded emit no highlight, open no stream and start no node
\* afterwards.
C4_SeekSupersedes ==
  /\ last.step = "readFromIndex" /\ last.outcome # "rejected" =>
       ~currentStream /\ sourceNode = 0
  /\ last.pipe \in superseded =>
       last.outcome \notin {"highlight", "stream", "node"}

\* C5: a readFromIndex with index < 0 or index >= sentences.length (the empty
\* list included) is answered with an error in the step that receives it, and
\* no step of its handling changes the session state.
C5_InvalidIndexRejected ==
  [][(/\ last'.step \in {"readFromIndex", "readFromIndexClosed",
                          "readFromIndexStopped", "readFromIndexResumed",
                          "readFromIndexSettings"}
      /\ (last'.arg < 0 \/ last'.arg >= Len(sentences)))
     => /\ last'.outcome = "rejected"
        /\ lastResponse'.status = "error"
        /\ UNCHANGED <<currentSentenceIndex, isPlaying, isPaused, sentences,
                       audioContext, ttsClient, sourceNode, currentStream>>]_vars

\* C6: at most one readNextSentence pipeline is active, at most one stream
\* is open, at most one node is started and not ended, and the stream of
\* sentence N+1 is never opened while readSentence of N is pending.
C6_SinglePipeline ==
  /\ Cardinality(ActivePipelines) <= 1
  /\ Cardinality({p \in Pipes : pipes[p].pc = "stream"}) <= 1
  /\ Cardinality({p \in Pipes : pipes[p].node = "started"}) <= 1
  /\ \A p, q \in Pipes :
       (/\ last.outcome = "stream" /\ last.pipe = p
        /\ q # p /\ pipes[q].pc \in ReadSentencePcs)
         => pipes[p].idx # pipes[q].idx + 1

\* C7: the guard's finish after the last sentence is a full stop that emits
\* exactly one readingStopped, and after it no pipeline callback emits
\* another one before a new start.
C7_FinishStopsOnce ==
  [][/\ (last'.step = "delayExpired" /\ last'.outcome = "finish") =>
          /\ ~isPlaying' /\ ~isPaused'
          /\ sentences' = <<>> /\ currentSentenceIndex' = 0
          /\ Cardinality(ReadingStopped(emitted')) = 1
     /\ (ended = "finish" /\ last'.step \in QuietSteps \cup {"awaitRejected"})
          => ReadingStopped(emitted') = {}]_vars

\* C8 as stated: a stream that ends with no chunk starts no node for the
\* sentence, stops the session through the error path and does not advance
\* the index.
C8_ZeroChunksStop ==
  [][\A p \in Pipes :
       (/\ pipes[p].pc = "stream" /\ ~pipes[p].chunks
        /\ last'.step = "streamEnd" /\ last'.pipe = p)
       => /\ last'.outcome = "error"
          /\ ~isPlaying' /\ sourceNode' = 0
          /\ pipes'[p].pc = "free"
          /\ Cardinality(ReadingStopped(emitted')) = 1
          /\ currentSentenceIndex' # pipes[p].idx + 1]_vars

\* C8 (amended): a stream that ends with no chunk while the controller is
\* not paused starts no node for the sentence, stops the session through
\* the error path (full stop, one readingStopped) and does not advance the
\* index; while paused, the end of the stream resolves the sentence silently.
C8_ZeroChunksStopUnlessPaused ==
  [][\A p \in Pipes :
       (/\ pipes[p].pc = "stream" /\ ~pipes[p].chunks
        /\ last'.step = "streamEnd" /\ last'.pipe = p)
       => IF isPaused
          THEN /\ last'.outcome = "resolved"
               /\ pipes'[p].pc = "delay"
               /\ pipes'[p].node = "none"
               /\ UNCHANGED <<currentSentenceIndex, isPlaying>>
          ELSE /\ last'.outcome = "error"
               /\ ~isPlaying' /\ sourceNode' = 0
               /\ pipes'[p].pc = "free"
               /\ Cardinality(ReadingStopped(emitted')) = 1
               /\ currentSentenceIndex' # pipes[p].idx + 1]_vars

C8_Witness ==
  /\ last.step = "streamEnd" /\ last.arg = 0
  /\ last.outcome = "error"
  /\ ~isPlaying
  /\ ActivePipelines = {}

\* C9: after a pipeline error has stopped the session and before a new
\* start, isPlaying is false and no sentence is highlighted, synthesized or
\* played.
C9_ErrorStopsSession ==
  ended = "error" =>
    /\ ~isPlaying
    /\ last.outcome \notin {"highlight", "stream", "node"}

\* C10: the step in which a pipeline error stops the session sends exactly
\* one 'error' message towards the reader page.
C10_OneErrorNotification ==
  last.outcome = "error" => Cardinality(ErrorMessages(emitted)) = 1

\* C11: a startReadingText on text that segments to zero sentences answers
\* the caller with status 'error', sends no highlight and leaves isPlaying
\* false.
C11_EmptySegmentationFails ==
  [][\A p \in Pipes :
       (/\ pipes[p].pc \in {"sr_wait", "sel_settings"}
        /\ pipes[p].doc = <<>>
        /\ last'.step = "startReadingText" /\ last'.pipe = p)
       => /\ lastResponse'.status = "error"
          /\ Highlights([emitted |-> emitted']) = <<>>
          /\ ~isPlaying']_vars

\* C12: in every settled state (no handler and no pipeline call chain in
\* progress) isPlaying and isPaused are not both true.
C12_FlagsExclusive ==
  (\A p \in Pipes : pipes[p].pc = "free") => ~(isPlaying /\ isPaused)

\* C13: in every reachable state 0 <= currentSentenceIndex <= sentences.length.
C13_IndexInRange ==
  currentSentenceIndex \in 0..Len(sentences)

\* The controller is Idle: no sentences, both flags false, no audio or
\* stream resource, no handler in progress.
Idle ==
  /\ sentences = <<>> /\ ~isPlaying /\ ~isPaused
  /\ sourceNode = 0 /\ ~currentStream /\ ~audioContext /\ ~ttsClient
  /\ \A p \in Pipes : pipes[p].pc = "free"

\* C14: a stopReading request handled while the controller is Idle changes
\* no session state, sends no message (no readingStopped) and is answered
\* with status 'success'.
C14_StopWhenIdleIsNoOp ==
  [][(Idle /\ last'.step = "stopReading")
     => /\ UNCHANGED <<ttsClient, audioContext, sourceNode, isPlaying,
                       isPaused, currentSentenceIndex, sentences,
                       currentStream, currentVoice, currentSpeed, pipes>>
        /\ emitted' = <<>>
        /\ lastResponse'.status = "success"]_vars

\* C15: when a new session sends its first highlight, the playback node and
\* the synthesis stream of the previous session have been released: the
\* controller holds no node and no stream, no node of another call chain is
\* started and no other call chain waits on an open stream.
C15_NewSessionReleasesOld ==
  (last.step = "startReadingText" /\ last.outcome = "highlight") =>
    /\ sourceNode = 0 /\ ~currentStream
    /\ \A q \in Pipes \ {last.pipe} :
         pipes[q].node # "started" /\ pipes[q].pc # "stream"

\* C16: with nothing persisted, the voice and speed a session uses, whether
\* sent by the popup or answered by getSettings, are "en-US-AvaNeural" and
\* 1.0.
C16_DefaultSettings ==
  currentVoice # Null =>
    /\ currentVoice = DefaultVoice
    /\ currentSpeed = StoredSpeed

\* C17: every pauseReading, resumeReading, stopReading, readFromIndex,
\* readSelection and updateReaderHighlight request the background handles
\* is answered with status 'success', or with status 'error' and an error
\* string, whatever sourceTabId and readerTabId are.
C17_RelayAnswers ==
  bg.resp.action \in RelayActions =>
    /\ bg.resp.status \in {"success", "error"}
    /\ bg.resp.status = "error" => bg.resp.error

\* C18: every openReader request is eventually answered.
C18_OpenReaderAnswered ==
  (bg.open.pc # "idle") ~> (bg.open.pc = "idle")

\* Positions inside one call of tryUpdateContent.
AttemptPcs == {"ping", "tc_get", "tc_send"}

\* C19: an openReaderTab that creates a tab calls tryUpdateContent at most
\* 20 times, each call after the first follows a failed one, the rejection
\* comes with the 20th failed attempt, and once the call has settled
\* (resolved or rejected) no further attempt is made.
C19_BoundedAttempts ==
  [][/\ bg'.attempts <= MaxRetries
     /\ bg'.attempts > bg.attempts =>
          /\ bg.open.pc = "wait"
          /\ bg'.attempts = bg.open.retries + 1
     /\ (bg.open.pc \in AttemptPcs /\ bg'.open.pc = "idle") =>
          /\ bg'.attempts = bg.attempts
          /\ bg'.resp.status = "error" => bg.attempts = MaxRetries
     /\ bg.open.pc = "idle" => bg'.attempts <= bg.attempts]_vars

C19_Witness ==
  /\ bg.open.pc = "idle"
  /\ bg.resp.action = "openReader" /\ bg.resp.status = "error"
  /\ bg.attempts = MaxRetries

\* C20: for every non-empty text, the texts of the units splitIntoSentences
\* returns, joined with single blanks, are the whitespace-normalized trimmed
\* input, and the index fields of the units are 0, 1, ..., n-1 in order.
RECURSIVE JoinTexts(_)
JoinTexts(units) ==
  IF units = <<>> THEN <<>>
  ELSE IF Len(units) = 1 THEN units[1].text
  ELSE units[1].text \o <<" ">> \o JoinTexts(Tail(units))

C20_SegmentationRoundTrip ==
  (seg.done /\ seg.text # <<>>) =>
    /\ JoinTexts(seg.units) = Normalize(seg.text)
    /\ \A k \in 1..Len(seg.units) : seg.units[k].index = k - 1


\* C21: for every non-blank text that holds no terminator, splitIntoSentences
\* returns exactly one unit, and its text is the whole whitespace-normalized
\* text.
NoTerminator(t) == \A k \in 1..Len(t) : ~IsTerminator(t[k])

C21_UnterminatedTextIsOneUnit ==
  (seg.done /\ Normalize(seg.text) # <<>> /\ NoTerminator(seg.text)) =>
    /\ Len(seg.units) = 1
    /\ seg.units[1].text = Normalize(seg.text)

\* C22: splitIntoSentences returns the empty list for the empty text and for
\* every text that consists of whitespace only.
Blank(t) == \A k \in 1..Len(t) : IsSpace(t[k])

C22_BlankTextHasNoUnits ==
  (seg.done /\ Blank(seg.text)) => seg.units = <<>>

C22_Witness ==
  /\ seg.done
  /\ seg.impl = "TextProcessor"
  /\ seg.text = <<" ", Newline>>
  /\ seg.units = <<>>

\* C23: once an updateReaderHighlight(i) has been relayed to a reader page
\* that is open, listening and showing the article, sentence i is the active
\* sentence of the page (until the page handles a click or new content).
C23_RelayedHighlightIsActive ==
  (bg.relayed >= 0 /\ bg.shown) => bg.active = bg.relayed

\* C24: the index the reader sends in readFromIndex when a sentence of the
\* article is clicked is the index of that sentence in the controller's
\* sentence list.
C24_ClickSendsControllerIndex ==
  (view.pc = "clicked" /\ view.shown >= 0) => view.sent = view.shown

\* C25: while a pause that was handled in the pacing delay after sentence K
\* holds the session (no other request has been handled since), no step
\* increments currentSentenceIndex, emits the highlight of K+1 or takes a
\* call chain into the synthesis of K+1.
C25_PauseInDelayHolds ==
  [][(held >= 0 /\ held' = held) =>
       /\ currentSentenceIndex' <= currentSentenceIndex
       /\ \A k \in 1..Len(emitted') :
            ~(emitted'[k].action = "updateReaderHighlight"
              /\ emitted'[k].index = held + 1)
       /\ \A p \in Pipes :
            (pipes'[p].pc \in ReadSentencePcs /\ pipes'[p].idx = held + 1)
              => pipes[p].pc \in ReadSentencePcs]_vars

\* The delay has run out under the pause: the chain has returned, the index
\* is still K.
C25_Witness ==
  /\ held = 0
  /\ last.step = "delayExpired"
  /\ currentSentenceIndex = 0
  /\ isPaused
  /\ \A p \in Pipes : pipes[p].pc = "free"

\* C26: pauseReading leaves currentSentenceIndex unchanged, and while
\* isPaused stays true no callback of the pipeline (stream data, stream end,
\* decode completion, playback ended, delay expiry) changes
\* currentSentenceIndex, buffers a chunk or starts a playback node.
PipelineCallbacks == {"streamData", "streamEnd", "decodeDone",
                      "playbackEnded", "delayExpired"}

C26_PausedPipelineIsInert ==
  [][/\ last'.step = "pauseReading" =>
          currentSentenceIndex' = currentSentenceIndex
     /\ (isPaused /\ isPaused' /\ last'.step \in PipelineCallbacks) =>
          /\ currentSentenceIndex' = currentSentenceIndex
          /\ \A p \in Pipes :
               /\ pipes'[p].chunks => pipes[p].chunks
               /\ pipes'[p].node = "started" => pipes[p].node = "started"]_vars

\* C27: in the step that follows a handled stopReading, a callback of the
\* stopped pipeline starts no playback node, emits no highlight and creates
\* no TTS client, no audio context and no stream.
C27_StoppedPipelineIsInert ==
  [][(last.step = "stopReading" /\ last'.step \in QuietSteps) =>
       /\ \A p \in Pipes :
            pipes'[p].node = "started" => pipes[p].node = "started"
       /\ \A k \in 1..Len(emitted') :
            emitted'[k].action # "updateReaderHighlight"
       /\ ttsClient' => ttsClient
       /\ audioContext' => audioContext
       /\ currentStream' => currentStream]_vars

\* C28: stopReading(closeReader, keepState) always clears isPlaying,
\* isPaused, sourceNode, audioContext, ttsClient and currentStream; with
\* keepState false it also empties the sentence list, resets the index and
\* the voice and speed and sends exactly one readingStopped; with keepState
\* true it leaves sentences, index, voice and speed alone and sends nothing.
C28_StopReadingFrame ==
  [][last'.step = "stopReadingCall" =>
       /\ ~isPlaying' /\ ~isPaused'
       /\ sourceNode' = 0 /\ ~audioContext' /\ ~ttsClient' /\ ~currentStream'
       /\ last'.arg = 0 =>
            /\ sentences' = <<>> /\ currentSentenceIndex' = 0
            /\ currentVoice' = Null /\ currentSpeed' = NoSpeed
            /\ Len(emitted') = 1
            /\ emitted'[1].action = "readingStopped"
       /\ last'.arg = 1 =>
            /\ sentences' = sentences
            /\ currentSentenceIndex' = currentSentenceIndex
            /\ currentVoice' = currentVoice /\ currentSpeed' = currentSpeed
            /\ emitted' = <<>>]_vars

\* stopReading(_, true) has been applied to a session at sentence 1.
C28_Witness ==
  /\ last.step = "stopReadingCall" /\ last.arg = 1
  /\ Len(sentences) = MaxSent /\ currentSentenceIndex = 1
  /\ currentVoice = DefaultVoice
  /\ ~isPlaying /\ ~ttsClient /\ sourceNode = 0
  /\ emitted = <<>>

\* C29: when a readFromIndex(i) with 0 <= i < sentences.length that was
\* handled in a playing or paused session reaches its state update, the
\* step leaves currentSentenceIndex = i, isPlaying true and isPaused false,
\* sends the highlight of sentence i, and the sentence list and the voice and
\* speed known when the request was handled are still the same.
C29_SeekFrame ==
  [][\A p \in Pipes :
       (/\ pipes[p].pc \in {"rfi_resume", "rfi_settings"}
        /\ pipes[p].text = 1 /\ pipes[p].idx >= 0
        /\ last'.pipe = p
        /\ last'.step \in {"readFromIndexResumed", "readFromIndexSettings"}
        /\ pipes'[p].pc # "rfi_settings") =>
         /\ sentences' = pipes[p].doc
         /\ currentSentenceIndex' = pipes[p].idx
         /\ isPlaying' /\ ~isPaused'
         /\ pipes'[p].pc = "hl" /\ pipes'[p].idx = pipes[p].idx
         /\ (pipes[p].voice # Null /\ pipes[p].speed # NoSpeed) =>
              /\ currentVoice' = pipes[p].voice
              /\ currentSpeed' = pipes[p].speed]_vars

\* C30: a pauseReading handled while the controller is Idle is a no-op:
\* isPaused, isPlaying, currentSentenceIndex and sentences are the same
\* afterwards and the response is 'success'.
C30_PauseWhileIdleIsNoOp ==
  [][(Idle /\ last'.step = "pauseReading") =>
       /\ isPaused' = isPaused /\ isPlaying' = isPlaying
       /\ currentSentenceIndex' = currentSentenceIndex
       /\ sentences' = sentences
       /\ lastResponse'.status = "success"]_vars

\* C31: a full stop leaves the audio context and the TTS client released,
\* and the step that follows it, unless it handles a request, leaves both
\* released: they are created again only by handling a start, resume or
\* seek request.
C31_ReleasedUntilNextStart ==
  [][/\ last'.step = "stopReading" => ~audioContext' /\ ~ttsClient'
     /\ (last.step = "stopReading" /\ last'.step \in QuietSteps) =>
          ~audioContext' /\ ~ttsClient']_vars

\* C32: a pause, stop or seek handled while a playback node is active stops
\* the node and leaves sourceNode null, and the readSentence promise that
\* waits for the stopped node eventually settles.
StopperSteps == {"pauseReading", "stopReading", "readFromIndex"}

NodeStopped(p) ==
  /\ p \in Pipes
  /\ pipes[p].pc = "playing" /\ pipes[p].node \in {"stopped", "cut"}

C32_StoppedNodeSettles ==
  /\ [][(last'.step \in StopperSteps /\ last'.outcome # "rejected"
           /\ sourceNode # 0) =>
          /\ sourceNode' = 0
          /\ pipes'[sourceNode].node \in {"stopped", "cut"}]_vars
  /\ \A p \in 1..WidePipes : NodeStopped(p) ~> ~NodeStopped(p)

\* C33: isHeading(text) is true exactly when (a) the text matches the
\* all-caps pattern, or (b) it is at most 50 characters long and ends with a
\* colon, or (c) it is digits, a period, whitespace and a short phrase; in
\* particular a 51-character text with lowercase letters that ends with a
\* colon is not a heading.
StatedHeading(t) ==
  \/ AllCaps(t)
  \/ Len(t) \in 1..HeadLimit /\ IsColon(t[Len(t)])
  \/ Numbered(t)

HasLower(t) == \E k \in 1..Len(t) : IsLower(t[k])

C33_IsHeadingAsStated ==
  (seg.impl = "isHeading" /\ seg.done) =>
    /\ seg.heading = StatedHeading(seg.text)
    /\ (/\ Len(seg.text) = HeadLimit + 1 /\ HasLower(seg.text)
        /\ IsColon(seg.text[Len(seg.text)])) => ~seg.heading

\* C34: whenever the controller is paused and no message is on its way
\* between the reader, the background and the content script, the reader's
\* Resume button is enabled and its Pause button is disabled.
NoMessageInFlight ==
  ctl.toContent = <<>> /\ ctl.seek = "none" /\ ~ctl.stopped /\ ~ctl.notify

C34_PausedShowsResume ==
  (ctl.open /\ ctl.isPaused /\ NoMessageInFlight) =>
    ~ctl.resumeDisabled /\ ctl.pauseDisabled

\* C39: in every state of the reader page the Pause and Resume buttons are
\* never both enabled, and whenever the Stop button is disabled both Pause
\* and Resume are disabled.
C39_ButtonsConsistent ==
  /\ ctl.pauseDisabled \/ ctl.resumeDisabled
  /\ ctl.stopDisabled => (ctl.pauseDisabled /\ ctl.resumeDisabled)

\* The reader after a click on Pause that was followed by readingStarted and
\* by another click on Pause: Resume is the enabled one.
C39_Witness ==
  /\ ctl.open /\ ctl.shown /\ ctl.isPaused
  /\ ~ctl.resumeDisabled /\ ctl.pauseDisabled /\ ~ctl.stopDisabled
  /\ ctl.seek = "done"

\* C35: the response to a startReading or readFromIndex request is sent
\* only when the pipeline the request started has ended: the step of the
\* pipeline in which its call chain returns to the listener leaves the
\* controller paused or not playing (pause, stop, finish or error).
C35_ResponseAfterPipeline ==
  (last.step \in QuietSteps /\ pipes[last.pipe].pc = "free") =>
    /\ isPaused \/ ~isPlaying
    /\ lastResponse.action = "chain"

\* The chain of a session returns at the end of the pacing delay under a
\* pause, and the listener answers 'success'.
C35_Witness ==
  /\ last.step = "delayExpired" /\ last.outcome = "halt"
  /\ pipes[last.pipe].pc = "free"
  /\ isPaused /\ isPlaying
  /\ lastResponse = [action |-> "chain", status |-> "success", error |-> Null]

\* C37: after the background has handled readingStopped with closeReader
\* true, readerTabId and sourceTabId are both null, also when the reader tab
\* had been closed before; with closeReader false both ids are unchanged and
\* no tab is closed.
C37_ReadingStoppedFrame ==
  [][/\ BgReadingStopped(TRUE) => (~bg'.readerTabId /\ ~bg'.sourceTabId)
     /\ BgReadingStopped(FALSE) =>
          /\ bg'.readerTabId = bg.readerTabId
          /\ bg'.sourceTabId = bg.sourceTabId
          /\ bg'.tab = bg.tab]_vars

\* The reader tabs created by the background that are open.
OpenReaderTabs == bg.orphans + (IF TabAlive(bg) THEN 1 ELSE 0)

\* C36: at most one reader tab created by the background is open, and when
\* one is open readerTabId is null or names it.
C36_OneReaderTab ==
  /\ OpenReaderTabs <= 1
  /\ (bg.readerTabId /\ OpenReaderTabs = 1) => TabAlive(bg)

\* The undisturbed session has begun: startReadingText has sent the first
\* highlight.
SessionStarted ==
  last.step = "startReadingText" /\ last.outcome = "highlight" /\ sessLen >= 1

\* The session has finished: every sentence was highlighted once, in order,
\* and the controller is Idle.
SessionFinished ==
  /\ ended = "finish"
  /\ hlLog = [k \in 1..sessLen |-> k - 1]
  /\ ~isPlaying /\ ~isPaused /\ sentences = <<>> /\ currentSentenceIndex = 0
  /\ \A p \in Pipes : pipes[p].pc = "free"

\* C38: a session started on n >= 1 sentences that nothing disturbs
\* eventually finishes: every sentence 0..n-1 is played once (a sentence
\* reaches its pacing delay only from its own playing node) and the
\* controller ends Idle.
C38_SessionFinishes ==
  /\ SessionStarted ~> SessionFinished
  /\ [][\A p \in Pipes :
          (pipes'[p].pc = "delay" /\ pipes[p].pc # "delay") =>
            /\ pipes[p].pc = "playing" /\ pipes[p].node = "started"
            /\ pipes[p].idx = hlLog[Len(hlLog)]]_vars

C38_Witness ==
  SessionFinished /\ sessLen = RunSent /\ last.step = "delayExpired"
====
